---- MODULE Spec2Model ----
(***************************************************************************)
(* Model of the punt host library: the chunked operation engine            *)
(* (operation.rs), the geometry checks of the session-level Target         *)
(* (target.rs) and of the handle-level TargetHandle (target_handle.rs),    *)
(* the page arithmetic (flash.rs), the erase status mapping (error.rs)     *)
(* and the target selection policy (context.rs).                           *)
(***************************************************************************)
EXTENDS Integers, Sequences, FiniteSets, TLC

\* ------------------------------------------------------------------ bounds
MaxLen == 3          \* buffer lengths 0..MaxLen are tried (plus 128 and the 300 bytes of the example)
MaxExtra == 2        \* advances tried after an operation is exhausted
MaxPages == 2        \* length of an explicit page list given to erase_pages
MaxDevices == 3      \* devices on the bus during discovery

\* ------------------------------------------------------- program constants
FLASH_BASE == 134217728                      \* 0x0800_0000
PAGE_SIZE == 1024
U8 == 256                                    \* Page(u8): indices are taken mod 2^8
ADDRESS_HEADER == 4                          \* address bytes in front of a Program payload

\* ------------------------------------------------------------ environment
\* Application windows a device may report (application_base, application_size).
\* The second one lies across page index 255, the largest index a Page holds,
\* the third one past it.
Windows ==
    { [application_base |-> FLASH_BASE + 2 * PAGE_SIZE, application_size |-> 3 * PAGE_SIZE],
      [application_base |-> FLASH_BASE + 254 * PAGE_SIZE, application_size |-> 4 * PAGE_SIZE],
      [application_base |-> FLASH_BASE + 256 * PAGE_SIZE, application_size |-> 2 * PAGE_SIZE] }

\* Endpoint capacities found when the device is opened (u16 fields).
OutBufferLengths == {4, 68}
InBufferLengths == {0, 64}

\* Status bytes a device answers an ErasePage of an operation with.
StatusCodes == {0, 1, 2, 3, 9, 255}

\* Start addresses and lengths tried against a window w.
StartsOf(w) ==
    { w.application_base + d : d \in {-1, 0, 1, 2, PAGE_SIZE - 1, PAGE_SIZE} }
        \cup { w.application_base + w.application_size + d : d \in {-2, -1, 0} }

AreaLengthsOf(w) ==
    {0, 1, 2, PAGE_SIZE, PAGE_SIZE + 1, 2 * PAGE_SIZE, w.application_size, w.application_size + 1}

DataLens == (0 .. MaxLen) \cup {128, 300}

PageIndices == {0, 1, 2, 3, 4, 5, 254, 255}

\* Addresses verify is tried at: the base of the window and the byte before it
\* (verify checks no range).
VerifyStartsOf(w) == { w.application_base - 1, w.application_base }

RECURSIVE SeqsUpTo(_, _)
SeqsUpTo(S, n) ==
    IF n = 0 THEN { <<>> }
    ELSE LET shorter == SeqsUpTo(S, n - 1)
         IN  shorter \cup { Append(s, x) : s \in { t \in shorter : Len(t) = n - 1 }, x \in S }

Min(a, b) == IF a < b THEN a ELSE b

\* Buffers verify is tried with: short ones, one whole word and one that
\* needs a second, padded word.
VerifyData ==
    SeqsUpTo({1, 255}, MaxLen) \cup { << 255, 255, 255, 255 >>, << 1, 2, 3, 4, 5 >> }

\* ------------------------------------------------------------------ flash.rs
\* Page::from_address: ((address - FLASH_BASE) / PAGE_SIZE) as u8
PageFromAddress(address) == ((address - FLASH_BASE) \div PAGE_SIZE) % U8

\* Page::begin and Page::end
PageBegin(p) == p * PAGE_SIZE + FLASH_BASE
PageEnd(p) == (p + 1) * PAGE_SIZE + FLASH_BASE - 1

\* ------------------------------------------------------------------ error.rs
\* impl From<u8> for EraseError
EraseErrorFrom(code) ==
    IF code = 1 THEN "Prohibited"
    ELSE IF code = 2 THEN "VerifyFailed"
    ELSE "Unknown"

\* ------------------------------------------------------------------- state
VARIABLES
    device,             \* the window the device reports: [application_base, application_size]
    bootloader_info,    \* Target::bootloader_info, the snapshot taken when the session opened
    in_buffer_length,   \* TargetHandle::in_buffer_length
    out_buffer_length,  \* TargetHandle::out_buffer_length
    op,                 \* the operation borrowing the handle (kind "none" when there is none)
    call,               \* the entry point called last and its arguments
    ret,                \* what the last call returned
    log,                \* transactions issued since the last entry-point call began
    history,            \* the items next() returned for the current operation, oldest first
    targets,            \* the devices on the bus that discovery enumerates
    picked              \* the TargetInfo pick_target returned last, or the one open was called on

vars == << device, bootloader_info, in_buffer_length, out_buffer_length,
           op, call, ret, log, history, targets, picked >>

session == << device, bootloader_info, in_buffer_length, out_buffer_length >>

discovery == << targets, picked >>

NoOp ==
    [kind |-> "none", pages |-> <<>>, count |-> 0, done |-> TRUE,
     address |-> 0, i |-> 0, length |-> 0, chunk_size |-> 0, stores |-> <<>>]

\* Option<&str>: None, or Some(value)
NoSerial == [given |-> FALSE, value |-> ""]
SomeSerial(value) == [given |-> TRUE, value |-> value]

NoCall ==
    [fn |-> "none", api |-> "none", start |-> 0, length |-> 0, pages |-> <<>>, tx0 |-> 0,
     serial |-> NoSerial, data |-> <<>>, enumerated |-> TRUE, opened |-> FALSE]

\* TargetInfo, and the value that stands for none
TargetInfo(serial, bus, address) ==
    [serial |-> serial, usb_bus_number |-> bus, usb_bus_address |-> address]

NoTarget == TargetInfo("", 0, 0)

\* BootloaderInfo, with the strings as sequences (identifier: of bytes,
\* build_date: of characters), and the value that stands for none
BootloaderInfo(base, size, date, identifier) ==
    [application_base |-> base, application_size |-> size, build_date |-> date,
     identifier |-> identifier]

NoInfo == BootloaderInfo(0, 0, <<>>, <<>>)

\* What a call or an advance returned: the kind of value, a number it
\* carries, the error, and the value when it is no number (a BootloaderInfo,
\* a list of TargetInfo, the two halves of a checksum)
Item(tag, n, err) == [tag |-> tag, n |-> n, err |-> err, val |-> NoInfo]

Idle == Item("Idle", 0, "")

\* --------------------------------------------------------- target_handle.rs
\* The points at which TargetHandle::send_command can fail for a transaction
\* with wlen bytes to write and rlen bytes to read ("none": every step succeeds).
Faults(wlen, rlen) ==
    {"none", "claim", "control", "release"}
        \cup (IF wlen > 0 THEN {"bulk_out"} ELSE {})
        \cup (IF rlen > 0 THEN {"bulk_in"} ELSE {})

\* enum Command, as the request byte of the control transfer (cmd as u8)
Opcode(cmd) ==
    CASE cmd = "BootloaderInfo" -> 1
      [] cmd = "ReadCrc" -> 2
      [] cmd = "ReadMemory" -> 3
      [] cmd = "ErasePage" -> 4
      [] cmd = "Program" -> 5
      [] cmd = "Exit" -> 255

\* One call into the USB layer: which call it is, the request byte and the
\* payload length it carries, and whether it succeeded.
Step(kind, request, len, ok) == [kind |-> kind, request |-> request, len |-> len, ok |-> ok]

\* The calls that are made of a list of calls when the one named fault fails:
\* every `?` returns at the first failure.
RECURSIVE Attempted(_, _)
Attempted(plan, fault) ==
    IF plan = <<>> THEN <<>>
    ELSE IF Head(plan).kind = fault THEN << [Head(plan) EXCEPT !.ok = FALSE] >>
    ELSE << Head(plan) >> \o Attempted(Tail(plan), fault)

send_command_reads_first(cmd, wlen, rlen, fault) ==
    Attempted(<< Step("claim", 0, 0, TRUE), Step("control", Opcode(cmd), 0, TRUE) >>
                  \o (IF rlen > 0 THEN << Step("bulk_in", 0, rlen, TRUE) >> ELSE <<>>)
                  \o (IF wlen > 0 THEN << Step("bulk_out", 0, wlen, TRUE) >> ELSE <<>>)
                  \o << Step("release", 0, 0, TRUE) >>,
              fault)

send_command_releases_on_error(cmd, wlen, rlen, fault) ==
    LET made == Attempted(<< Step("claim", 0, 0, TRUE), Step("control", Opcode(cmd), 0, TRUE) >>
                              \o (IF wlen > 0 THEN << Step("bulk_out", 0, wlen, TRUE) >> ELSE <<>>)
                              \o (IF rlen > 0 THEN << Step("bulk_in", 0, rlen, TRUE) >> ELSE <<>>)
                              \o << Step("release", 0, 0, TRUE) >>,
                          fault)
    IN  IF made[Len(made)].ok \/ made[Len(made)].kind \in {"claim", "release"} THEN made
        ELSE Append(made, Step("release", 0, 0, TRUE))

\* TargetHandle::send_command, the calls it makes into the USB layer in order:
\* claim_interface, write_control with the command and no payload, write_bulk
\* if there is data to send, read_bulk if bytes are to be read, release_interface.
send_command_steps(cmd, wlen, rlen, fault) ==
    Attempted(<< Step("claim", 0, 0, TRUE), Step("control", Opcode(cmd), 0, TRUE) >>
                  \o (IF wlen > 0 THEN << Step("bulk_out", 0, wlen, TRUE) >> ELSE <<>>)
                  \o (IF rlen > 0 THEN << Step("bulk_in", 0, rlen, TRUE) >> ELSE <<>>)
                  \o << Step("release", 0, 0, TRUE) >>,
              fault)

\* A BootloaderInfo packet as received: its length, the build date it carries
\* and the bytes after the fixed fields and the version.
Packet(length, build_date, rest) == [length |-> length, build_date |-> build_date, rest |-> rest]

NoPacket == Packet(0, 0, <<>>)

\* One transaction as the log keeps it: the command, its argument (page index
\* or address), the bytes written and read, the step that failed, the status
\* byte of an erase, the class of a BootloaderInfo response and the calls made
\* into the USB layer; for a ReadCrc the length asked for (len) and the
\* checksum buffer afterwards (crc), for a BootloaderInfo the packet.
Tx(cmd, arg, wlen, rlen, fault, status, resp) ==
    [cmd |-> cmd, arg |-> arg, wlen |-> wlen, rlen |-> rlen,
     fault |-> fault, status |-> status, resp |-> resp,
     steps |-> send_command_steps(cmd, wlen, rlen, fault),
     len |-> 0, crc |-> <<>>, packet |-> NoPacket, read |-> 0]

\* TargetHandle::send_command: Ok unless a step of the transaction failed.
send_command(fault) == IF fault = "none" THEN "Ok" ELSE "IoError"

erase_page_known_codes(page, fault, status) ==
    [tx |-> Tx("ErasePage", page, 1, 1, fault, status, ""),
     res |-> IF send_command(fault) # "Ok" THEN "IoError"
             ELSE IF status \notin {1, 2} THEN "Ok"
             ELSE "EraseError(" \o EraseErrorFrom(status) \o ")"]

\* TargetHandle::erase_page: one ErasePage transaction, then the status byte.
erase_page(page, fault, status) ==
    [tx |-> Tx("ErasePage", page, 1, 1, fault, status, ""),
     res |-> IF send_command(fault) # "Ok" THEN "IoError"
             ELSE IF status = 0 THEN "Ok"
             ELSE "EraseError(" \o EraseErrorFrom(status) \o ")"]

\* TargetHandle::program_chunk: the payload is the 4 address bytes and the chunk.
program_chunk(start, len, fault) ==
    [tx |-> Tx("Program", start, len + ADDRESS_HEADER, 0, fault, 0, ""),
     res |-> IF send_command(fault) # "Ok" THEN "IoError" ELSE "Ok"]

\* TargetHandle::read_chunk: an 8-byte request of the address and the
\* buffer's length, then the buffer is filled by the bulk-in transfer, which
\* may deliver fewer bytes than the buffer holds (missing of them are not
\* delivered); the count that send_command returns is dropped by map(|_| ()).
read_chunk(start, len, fault, missing) ==
    [tx |-> [Tx("ReadMemory", start, 8, len, fault, 0, "")
                EXCEPT !.len = len,
                       !.read = IF fault \in {"none", "release"} THEN len - missing ELSE 0],
     res |-> IF send_command(fault) # "Ok" THEN "IoError" ELSE "Ok"]

\* Bit i of a natural, and the bitwise exclusive or of two bytes and of two
\* 16-bit values
Bit(a, i) == (a \div (2 ^ i)) % 2

Xor8(a, b) ==
    ((Bit(a, 0) + Bit(b, 0)) % 2) + 2 * ((Bit(a, 1) + Bit(b, 1)) % 2)
        + 4 * ((Bit(a, 2) + Bit(b, 2)) % 2) + 8 * ((Bit(a, 3) + Bit(b, 3)) % 2)
        + 16 * ((Bit(a, 4) + Bit(b, 4)) % 2) + 32 * ((Bit(a, 5) + Bit(b, 5)) % 2)
        + 64 * ((Bit(a, 6) + Bit(b, 6)) % 2) + 128 * ((Bit(a, 7) + Bit(b, 7)) % 2)

Xor(a, b) == 256 * Xor8(a \div 256, b \div 256) + Xor8(a % 256, b % 256)

\* A u32 is kept as its two 16-bit halves << high, low >>.
\* CRC::crc32mpeg2(): polynomial 0x04C11DB7, initial value 0xFFFFFFFF, no
\* reflection, no final exclusive or.
CRC32_MPEG2_POLY == << 1217, 7607 >>
CRC32_MPEG2_INIT == << 65535, 65535 >>

\* The register after one bit has been shifted out
CrcShift(c) ==
    LET high == (c[1] % 32768) * 2 + (c[2] \div 32768)
        low == (c[2] % 32768) * 2
    IN  IF c[1] >= 32768
        THEN << Xor(high, CRC32_MPEG2_POLY[1]), Xor(low, CRC32_MPEG2_POLY[2]) >>
        ELSE << high, low >>

\* The register after the byte b has been digested: b is folded into the top
\* byte, then 8 bits are shifted out.
CrcDigestByte(c, b) ==
    CrcShift(CrcShift(CrcShift(CrcShift(CrcShift(CrcShift(CrcShift(CrcShift(
        << Xor(c[1], b * 256), c[2] >>))))))))

\* The registers CRC::digest goes through over bytes, first byte first,
\* appended to regs (whose last element is the register so far)
RECURSIVE CrcRun(_, _)
CrcRun(regs, bytes) ==
    IF bytes = <<>> THEN regs
    ELSE CrcRun(Append(regs, CrcDigestByte(regs[Len(regs)], Head(bytes))), Tail(bytes))

\* CRC::digest
CrcDigest(c, bytes) == CrcRun(<< c >>, bytes)[Len(bytes) + 1]

\* The word crc32 digests for a chunk of up to 4 bytes: the chunk copied to
\* the front of 4 zero bytes, then reversed.
CrcWordUnpadded(bytes) == [k \in 1 .. Len(bytes) |-> bytes[Len(bytes) + 1 - k]]

\* The word digested for a chunk of up to 4 bytes: the bytes copied into 4
\* zero bytes, then reversed
CrcWord(bytes) == [k \in 1 .. 4 |-> IF 5 - k <= Len(bytes) THEN bytes[5 - k] ELSE 0]

\* The loop of crc32 over buff.chunks(4), from the register c on
RECURSIVE Crc32From(_, _)
Crc32From(c, buff) ==
    IF buff = <<>> THEN c
    ELSE IF Len(buff) <= 4 THEN CrcDigest(c, CrcWord(buff))
    ELSE Crc32From(CrcDigest(c, CrcWord(SubSeq(buff, 1, 4))), SubSeq(buff, 5, Len(buff)))

\* crc32(buff)
crc32(buff) == Crc32From(CRC32_MPEG2_INIT, buff)

\* u32::from_le_bytes and u32::to_le_bytes
U32FromLeBytes(b) == << b[4] * 256 + b[3], b[2] * 256 + b[1] >>
U32ToLeBytes(c) == << c[2] % 256, c[2] \div 256, c[1] % 256, c[1] \div 256 >>

\* crc_packet after read_bulk has put the first n bytes of what the device
\* sent into the zeroed buffer
Filled(bytes, n) == [k \in 1 .. 4 |-> IF k <= n THEN bytes[k] ELSE 0]

\* TargetHandle::read_crc: one ReadCrc transaction with an 8-byte request
\* (start, length), the checksum is decoded from the 4-byte buffer.
read_crc(start, length, fault, packet) ==
    [tx |-> [Tx("ReadCrc", start, 8, 4, fault, 0, "") EXCEPT !.len = length, !.crc = packet],
     res |-> IF send_command(fault) # "Ok" THEN "IoError" ELSE "Ok",
     crc |-> U32FromLeBytes(packet)]

\* TargetHandle::max_program_chunk_size and max_read_chunk_size
max_program_chunk_size == out_buffer_length - ADDRESS_HEADER
max_read_chunk_size == in_buffer_length

\* The classes of BootloaderInfo responses: decodable, shorter than the fixed
\* fields (split_at panics), or with a remainder that is no valid string.
InfoResponses == {"valid", "short", "bad_string"}

\* u32::to_string, as a sequence of characters
RECURSIVE to_string(_)
to_string(n) ==
    LET digit == << "0", "1", "2", "3", "4", "5", "6", "7", "8", "9" >>[(n % 10) + 1]
    IN  IF n < 10 THEN << digit >> ELSE Append(to_string(n \div 10), digit)

\* String::insert(idx, ch), for idx <= len (it panics beyond)
Insert(str, idx, ch) == SubSeq(str, 1, idx) \o << ch >> \o SubSeq(str, idx + 1, Len(str))

\* The bytes of info_packet that the four u32 take, and those that the four
\* u32 and the version take
INFO_WORDS_LENGTH == 16

INFO_FIXED_LENGTH == INFO_WORDS_LENGTH + 3

\* Whether a byte sequence is UTF-8 (of the bytes tried, 255 is in no UTF-8
\* sequence and the others are ASCII)
IsUtf8(bytes) == \A k \in 1 .. Len(bytes) : bytes[k] < 128

\* The class of a packet, in the order in which bootloader_info decodes it:
\* split_at panics when bytes are missing for the four u32,
\* build_date.insert(6, '-') panics when the date has fewer than 6 digits,
\* split_at panics when bytes are missing for the version, CString::new fails
\* on any 0 byte, into_string on bytes that are not UTF-8.
ClassOf(packet) ==
    IF packet.length < INFO_WORDS_LENGTH THEN "short"
    ELSE IF Len(to_string(packet.build_date)) < 6 THEN "bad_date"
    ELSE IF packet.length < INFO_FIXED_LENGTH THEN "short"
    ELSE IF \E k \in 1 .. Len(packet.rest) : packet.rest[k] = 0 THEN "bad_string"
    ELSE IF ~IsUtf8(packet.rest) THEN "bad_string"
    ELSE "valid"

\* The BootloaderInfo decoded from a packet of class "valid"
Decoded(packet) ==
    BootloaderInfo(device.application_base, device.application_size,
                   Insert(Insert(to_string(packet.build_date), 6, "-"), 4, "-"),
                   packet.rest)

\* TargetHandle::bootloader_info: one BootloaderInfo transaction, then decoding.
handle_bootloader_info(fault, resp) ==
    [tx |-> Tx("BootloaderInfo", 0, 0, 64, fault, 0, resp),
     res |-> IF send_command(fault) # "Ok" THEN "IoError"
             ELSE IF resp \in {"short", "bad_date"} THEN "Panic"
             ELSE IF resp = "bad_string" THEN "MalformedResponse"
             ELSE "Ok"]

\* TargetHandle::bootloader_info called by the user: what it returns and the
\* transaction it issued, given the packet the device answered with
bootloader_info_call(fault, packet) ==
    LET b == handle_bootloader_info(fault, ClassOf(packet))
        tx == [b.tx EXCEPT !.packet = packet]
    IN  IF b.res = "Ok"
        THEN [ret |-> [Item("Ok", 0, "") EXCEPT !.val = Decoded(packet)], op |-> NoOp, txs |-> << tx >>]
        ELSE [ret |-> Item(IF b.res = "Panic" THEN "Panic" ELSE "Err", 0, b.res), op |-> NoOp,
              txs |-> << tx >>]

\* -------------------------------------------------------------- operation.rs
\* first..=last over u8 page indices, mapped through Page::from_index
RECURSIVE PageRange(_, _)
PageRange(first, last) ==
    IF first > last THEN <<>> ELSE <<first>> \o PageRange(first + 1, last)

ErasePagesOpNotDone(pages) ==
    [NoOp EXCEPT !.kind = "Erase", !.pages = pages, !.count = Len(pages), !.done = FALSE]

\* Erase::pages
ErasePagesOp(pages) ==
    [NoOp EXCEPT !.kind = "Erase", !.pages = pages, !.count = Len(pages),
                 !.done = (Len(pages) = 0)]

\* Erase::area
EraseAreaOp(start, length) ==
    LET pages == IF length = 0 THEN <<>>
                 ELSE PageRange(PageFromAddress(start), PageFromAddress(start + length - 1))
    IN  [NoOp EXCEPT !.kind = "Erase", !.pages = pages, !.count = Len(pages),
                     !.done = (Len(pages) = 0)]

\* Program::at (slice::chunks panics when the chunk size is 0)
ProgramAtOp(length, address) ==
    [NoOp EXCEPT !.kind = "Program", !.address = address,
                 !.chunk_size = max_program_chunk_size, !.i = 0,
                 !.length = length, !.done = (length = 0)]

\* Read::at (slice::chunks_mut panics when the chunk size is 0)
ReadAtOp(length, address) ==
    [NoOp EXCEPT !.kind = "Read", !.address = address,
                 !.chunk_size = max_read_chunk_size, !.i = 0,
                 !.length = length, !.done = (length = 0)]

\* Erase::total, Program::total, Read::total
Total(o) == IF o.kind = "Erase" THEN o.count ELSE o.length

\* Whether Enumerate<Chunks>::next still yields a chunk
HasChunk(o) == o.i * o.chunk_size < o.length

\* The length of the chunk it yields
ChunkLen(o) == Min(o.chunk_size, o.length - o.i * o.chunk_size)

\* Whether the next advance reaches the device
Transacts(o) ==
    /\ ~o.done
    /\ o.kind \in {"Program", "Read"} => HasChunk(o)

\* Erase::next. The result is the operation afterwards, the item returned and
\* the transactions issued.
EraseFuseBroken(o, fault, status) ==
    IF o.done THEN [op |-> o, item |-> Item("None", 0, ""), txs |-> <<>>]
    ELSE LET page == o.pages[Len(o.pages)]
             rest == SubSeq(o.pages, 1, Len(o.pages) - 1)
             r == erase_page(page, fault, status)
         IN  [op |-> [o EXCEPT !.pages = rest, !.done = (Len(rest) = 0)],
              item |-> IF r.res = "Ok" THEN Item("SomeOk", o.count - Len(rest), "")
                       ELSE Item("SomeErr", 0, r.res),
              txs |-> << r.tx >>]

EraseNextCountingPending(o, fault, status) ==
    IF o.done THEN [op |-> o, item |-> Item("None", 0, ""), txs |-> <<>>]
    ELSE LET page == o.pages[Len(o.pages)]
             rest == SubSeq(o.pages, 1, Len(o.pages) - 1)
             r == erase_page(page, fault, status)
         IN  [op |-> [o EXCEPT !.pages = rest,
                               !.done = (Len(rest) = 0) \/ (r.res # "Ok")],
              item |-> IF r.res = "Ok" THEN Item("SomeOk", o.count - Len(o.pages), "")
                       ELSE Item("SomeErr", 0, r.res),
              txs |-> << r.tx >>]

\* Erase::next
EraseNext(o, fault, status) ==
    IF o.done THEN [op |-> o, item |-> Item("None", 0, ""), txs |-> <<>>]
    ELSE LET page == o.pages[Len(o.pages)]
             rest == SubSeq(o.pages, 1, Len(o.pages) - 1)
             r == erase_page(page, fault, status)
         IN  [op |-> [o EXCEPT !.pages = rest,
                               !.done = (Len(rest) = 0) \/ (r.res # "Ok")],
              item |-> IF r.res = "Ok" THEN Item("SomeOk", o.count - Len(rest), "")
                       ELSE Item("SomeErr", 0, r.res),
              txs |-> << r.tx >>]

ProgramNextWholeChunks(o, fault) ==
    IF o.done THEN [op |-> o, item |-> Item("None", 0, ""), txs |-> <<>>]
    ELSE IF HasChunk(o)
    THEN LET r == program_chunk(o.address + o.i * o.chunk_size, ChunkLen(o), fault)
         IN  [op |-> [o EXCEPT !.i = o.i + 1, !.done = (r.res # "Ok")],
              item |-> IF r.res = "Ok"
                       THEN Item("SomeOk", (o.i + 1) * o.chunk_size, "")
                       ELSE Item("SomeErr", 0, r.res),
              txs |-> << r.tx >>]
    ELSE [op |-> [o EXCEPT !.done = TRUE], item |-> Item("None", 0, ""), txs |-> <<>>]

ProgramNextChunkLength(o, fault) ==
    IF o.done THEN [op |-> o, item |-> Item("None", 0, ""), txs |-> <<>>]
    ELSE IF HasChunk(o)
    THEN LET r == program_chunk(o.address + o.i * o.chunk_size, ChunkLen(o), fault)
         IN  [op |-> [o EXCEPT !.i = o.i + 1, !.done = (r.res # "Ok")],
              item |-> IF r.res = "Ok" THEN Item("SomeOk", ChunkLen(o), "")
                       ELSE Item("SomeErr", 0, r.res),
              txs |-> << r.tx >>]
    ELSE [op |-> [o EXCEPT !.done = TRUE], item |-> Item("None", 0, ""), txs |-> <<>>]

\* Program::next
ProgramNext(o, fault) ==
    IF o.done THEN [op |-> o, item |-> Item("None", 0, ""), txs |-> <<>>]
    ELSE IF HasChunk(o)
    THEN LET r == program_chunk(o.address + o.i * o.chunk_size, ChunkLen(o), fault)
         IN  [op |-> [o EXCEPT !.i = o.i + 1, !.done = (r.res # "Ok")],
              item |-> IF r.res = "Ok"
                       THEN Item("SomeOk", o.i * o.chunk_size + ChunkLen(o), "")
                       ELSE Item("SomeErr", 0, r.res),
              txs |-> << r.tx >>]
    ELSE [op |-> [o EXCEPT !.done = TRUE], item |-> Item("None", 0, ""), txs |-> <<>>]

\* The stores made into the caller's buffer, after the transfer of a chunk
\* (numbered from 1) stored n more bytes from position offset + 1 on
Stored(stores, chunk, offset, n) ==
    IF n = 0 THEN stores ELSE Append(stores, [chunk |-> chunk, offset |-> offset, n |-> n])

ReadNextByIndex(o, fault, missing) ==
    IF o.done THEN [op |-> o, item |-> Item("None", 0, ""), txs |-> <<>>]
    ELSE IF HasChunk(o)
    THEN LET r == read_chunk(o.address + o.i, ChunkLen(o), fault, missing)
         IN  [op |-> [o EXCEPT !.i = o.i + 1, !.done = (r.res # "Ok"),
                               !.stores = Stored(o.stores, o.i + 1, o.i * o.chunk_size, r.tx.read)],
              item |-> IF r.res = "Ok"
                       THEN Item("SomeOk", o.i * o.chunk_size + ChunkLen(o), "")
                       ELSE Item("SomeErr", 0, r.res),
              txs |-> << r.tx >>]
    ELSE [op |-> [o EXCEPT !.done = TRUE], item |-> Item("None", 0, ""), txs |-> <<>>]

ReadNextRetrying(o, fault, missing) ==
    IF o.done THEN [op |-> o, item |-> Item("None", 0, ""), txs |-> <<>>]
    ELSE IF HasChunk(o)
    THEN LET r == read_chunk(o.address + o.i * o.chunk_size, ChunkLen(o), fault, missing)
         IN  [op |-> [o EXCEPT !.i = o.i + 1, !.done = (r.res # "Ok"),
                               !.stores = Stored(o.stores, o.i + 1, o.i * o.chunk_size, r.tx.read)],
              item |-> IF r.res = "Ok"
                       THEN Item("SomeOk", o.i * o.chunk_size + ChunkLen(o), "")
                       ELSE Item("SomeErr", 0, r.res),
              txs |-> IF r.res = "Ok" THEN << r.tx >> ELSE << r.tx, r.tx >>]
    ELSE [op |-> [o EXCEPT !.done = TRUE], item |-> Item("None", 0, ""), txs |-> <<>>]

\* Read::next: the chunk handed to read_chunk is the i-th slice of the
\* caller's buffer, which the transfer fills from its beginning
ReadNext(o, fault, missing) ==
    IF o.done THEN [op |-> o, item |-> Item("None", 0, ""), txs |-> <<>>]
    ELSE IF HasChunk(o)
    THEN LET r == read_chunk(o.address + o.i * o.chunk_size, ChunkLen(o), fault, missing)
         IN  [op |-> [o EXCEPT !.i = o.i + 1, !.done = (r.res # "Ok"),
                               !.stores = Stored(o.stores, o.i + 1, o.i * o.chunk_size, r.tx.read)],
              item |-> IF r.res = "Ok"
                       THEN Item("SomeOk", o.i * o.chunk_size + ChunkLen(o), "")
                       ELSE Item("SomeErr", 0, r.res),
              txs |-> << r.tx >>]
    ELSE [op |-> [o EXCEPT !.done = TRUE], item |-> Item("None", 0, ""), txs |-> <<>>]

\* Iterator::next of whichever operation o is
OpNext(o, fault, status) ==
    IF o.kind = "Erase" THEN EraseNext(o, fault, status)
    ELSE IF o.kind = "Program" THEN ProgramNext(o, fault)
    ELSE ReadNext(o, fault, status)

\* The numbers of bytes by which the answer to a ReadMemory for n bytes may
\* fall short: none, or half of them (rounded up)
Shortfalls(n) == {0, n - (n \div 2)}

\* Short answers are tried on reads into buffers of up to this many bytes
SHORT_ANSWERS_UP_TO == 128

\* What the device may do to the next transaction of o: fail a step of the
\* transfer, (for an erase) answer with any status byte, or (for a read)
\* answer with fewer bytes than were asked for.
Outcomes(o) ==
    IF ~Transacts(o) THEN { <<"none", 0>> }
    ELSE IF o.kind = "Erase"
         THEN { <<f, 0>> : f \in Faults(1, 1) } \cup { <<"none", c>> : c \in StatusCodes }
    ELSE IF o.kind = "Program"
         THEN { <<f, 0>> : f \in Faults(ChunkLen(o) + ADDRESS_HEADER, 0) }
    ELSE { <<f, 0>> : f \in Faults(8, ChunkLen(o)) }
             \cup (IF o.length > SHORT_ANSWERS_UP_TO THEN {}
                   ELSE { <<"none", missing>> : missing \in Shortfalls(ChunkLen(o)) })

\* Iterator::last as Operation::execute uses it: next() is called until it
\* returns None; failAt is the call (counted from 1 within this run) whose
\* transaction the device fails with outcome bad, 0 when it fails none.
\* acc collects the operation, the items returned and the transactions.
RECURSIVE Drive(_, _, _, _)
Drive(acc, k, failAt, bad) ==
    LET out == IF k = failAt THEN bad ELSE <<"none", 0>>
        r == OpNext(acc.op, out[1], out[2])
        nxt == [op |-> r.op, items |-> Append(acc.items, r.item), txs |-> acc.txs \o r.txs]
    IN  IF r.item.tag = "None" THEN nxt ELSE Drive(nxt, k + 1, failAt, bad)

ExecuteResultOfFirst(items) ==
    LET some == SelectSeq(items, LAMBDA it : it.tag # "None")
    IN  IF Len(some) > 0 /\ some[1].tag = "SomeErr"
        THEN Item("ExecErr", 0, some[1].err)
        ELSE Item("ExecOk", 0, "")

\* Operation::execute: Err(error) when the last item is Some(Err(error)), else Ok(()).
ExecuteResult(items) ==
    LET some == SelectSeq(items, LAMBDA it : it.tag # "None")
    IN  IF Len(some) > 0 /\ some[Len(some)].tag = "SomeErr"
        THEN Item("ExecErr", 0, some[Len(some)].err)
        ELSE Item("ExecOk", 0, "")

\* The outcomes that make the transaction fail
BadOutcomes(o) ==
    IF o.kind = "Erase"
    THEN { <<f, 0>> : f \in Faults(1, 1) \ {"none"} }
             \cup { <<"none", c>> : c \in StatusCodes \ {0} }
    ELSE IF o.kind = "Program" THEN { <<f, 0>> : f \in Faults(ADDRESS_HEADER, 0) \ {"none"} }
    ELSE { <<f, 0>> : f \in Faults(8, 1) \ {"none"} }

\* The number of transactions o still has to issue
Remaining(o) ==
    IF o.done THEN 0
    ELSE IF o.kind = "Erase" THEN Len(o.pages)
    ELSE IF ~HasChunk(o) THEN 0
    ELSE (o.length - o.i * o.chunk_size + o.chunk_size - 1) \div o.chunk_size

\* ----------------------------------------------- bootloader_info.rs, entry points
\* BootloaderInfo::application_pages, a RangeInclusive<Page>
application_pages(info) ==
    [first |-> PageFromAddress(info.application_base),
     last |-> PageFromAddress(info.application_base + info.application_size - 1)]

\* RangeInclusive::contains
Contains(range, page) == range.first <= page /\ page <= range.last

OutsideWindowIgnoringLength(info, start, length) ==
    \/ info.application_base > start
    \/ info.application_base + info.application_size < start

\* The range check shared by erase_area, program_at and read_at
OutsideWindow(info, start, length) ==
    \/ info.application_base > start
    \/ info.application_base + info.application_size < start + length

\* What an entry point hands back: the value returned, the operation built
\* (NoOp when none is) and the transactions it issued itself.
Returned(item, o, txs) == [ret |-> item, op |-> o, txs |-> txs]
Failed(err, txs) == Returned(Item(IF err = "Panic" THEN "Panic" ELSE "Err", 0, err), NoOp, txs)
Built(o, txs) == Returned(Item("OkOp", 0, ""), o, txs)

TargetEraseAreaEager(start, length) ==
    IF OutsideWindow(bootloader_info, start, length) THEN Failed("InvalidRequest", <<>>)
    ELSE LET r == EraseNext(EraseAreaOp(start, length), "none", 0)
         IN  Built(r.op, r.txs)

\* Target::erase_area
TargetEraseArea(start, length) ==
    IF OutsideWindow(bootloader_info, start, length) THEN Failed("InvalidRequest", <<>>)
    ELSE Built(EraseAreaOp(start, length), <<>>)

\* Target::erase_pages
TargetErasePages(pages) ==
    IF \E k \in 1 .. Len(pages) : ~Contains(application_pages(bootloader_info), pages[k])
    THEN Failed("InvalidRequest", <<>>)
    ELSE Built(ErasePagesOp(pages), <<>>)

TargetProgramAtUnaligned(length, address) ==
    IF OutsideWindow(bootloader_info, address, length) THEN Failed("InvalidRequest", <<>>)
    ELSE IF max_program_chunk_size = 0 THEN Failed("Panic", <<>>)
    ELSE Built(ProgramAtOp(length, address), <<>>)

\* Target::program_at
TargetProgramAt(length, address) ==
    IF OutsideWindow(bootloader_info, address, length) THEN Failed("InvalidRequest", <<>>)
    ELSE IF address % 2 # 0 THEN Failed("InvalidRequest", <<>>)
    ELSE IF max_program_chunk_size = 0 THEN Failed("Panic", <<>>)
    ELSE Built(ProgramAtOp(length, address), <<>>)

\* Target::read_at
TargetReadAt(length, address) ==
    IF OutsideWindow(bootloader_info, address, length) THEN Failed("InvalidRequest", <<>>)
    ELSE IF max_read_chunk_size = 0 THEN Failed("Panic", <<>>)
    ELSE Built(ReadAtOp(length, address), <<>>)

\* Target::erase_page
TargetErasePage(page, fault, status) ==
    IF ~Contains(application_pages(bootloader_info), page) THEN Failed("InvalidRequest", <<>>)
    ELSE LET r == erase_page(page, fault, status)
         IN  IF r.res = "Ok" THEN Returned(Item("Ok", 0, ""), NoOp, << r.tx >>)
             ELSE Failed(r.res, << r.tx >>)

TargetVerifyTrusting(data, address, fault, packet) ==
    LET r == read_crc(address, Len(data), fault, packet)
    IN  IF r.res # "Ok" THEN Failed(r.res, << r.tx >>)
        ELSE Returned(Item("Ok", 0, ""), NoOp, << r.tx >>)

\* Target::verify
TargetVerify(data, address, fault, packet) ==
    LET r == read_crc(address, Len(data), fault, packet)
    IN  IF r.res # "Ok" THEN Failed(r.res, << r.tx >>)
        ELSE IF r.crc = crc32(data) THEN Returned(Item("Ok", 0, ""), NoOp, << r.tx >>)
        ELSE Failed("VerificationError", << r.tx >>)

\* TargetHandle::verify
HandleVerify(data, address, fault, packet) ==
    LET r == read_crc(address, Len(data), fault, packet)
    IN  IF r.res # "Ok" THEN Failed(r.res, << r.tx >>)
        ELSE IF r.crc = crc32(data) THEN Returned(Item("Ok", 0, ""), NoOp, << r.tx >>)
        ELSE Failed("VerificationError", << r.tx >>)

\* How the device may treat a ReadCrc for data: fail a step of the transfer,
\* or send the checksum of data, a checksum that differs from it in one bit,
\* or zero bytes, of which 0, 2 or all 4 bytes arrive.
CrcOutcomes(data) ==
    LET right == U32ToLeBytes(crc32(data))
        wrong == [right EXCEPT ![1] = Xor(right[1], 1)]
    IN  { << f, Filled(right, 0) >> : f \in Faults(8, 4) \ {"none"} }
            \cup { << "none", Filled(sent, n) >> :
                      sent \in {right, wrong, << 0, 0, 0, 0 >>}, n \in {0, 2, 4} }

\* TargetHandle::erase_area: the window is fetched from the device first
HandleEraseArea(start, length, fault, resp) ==
    LET b == handle_bootloader_info(fault, resp)
    IN  IF b.res # "Ok" THEN Failed(b.res, << b.tx >>)
        ELSE IF OutsideWindow(device, start, length) THEN Failed("InvalidRequest", << b.tx >>)
        ELSE Built(EraseAreaOp(start, length), << b.tx >>)

\* TargetHandle::erase_pages
HandleErasePages(pages, fault, resp) ==
    LET b == handle_bootloader_info(fault, resp)
    IN  IF b.res # "Ok" THEN Failed(b.res, << b.tx >>)
        ELSE IF \E k \in 1 .. Len(pages) : ~Contains(application_pages(device), pages[k])
        THEN Failed("InvalidRequest", << b.tx >>)
        ELSE Built(ErasePagesOp(pages), << b.tx >>)

\* TargetHandle::program_at
HandleProgramAt(length, address, fault, resp) ==
    LET b == handle_bootloader_info(fault, resp)
    IN  IF b.res # "Ok" THEN Failed(b.res, << b.tx >>)
        ELSE IF OutsideWindow(device, address, length) THEN Failed("InvalidRequest", << b.tx >>)
        ELSE IF address % 2 # 0 THEN Failed("InvalidRequest", << b.tx >>)
        ELSE IF max_program_chunk_size = 0 THEN Failed("Panic", << b.tx >>)
        ELSE Built(ProgramAtOp(length, address), << b.tx >>)

\* TargetHandle::read_at
HandleReadAt(length, address, fault, resp) ==
    LET b == handle_bootloader_info(fault, resp)
    IN  IF b.res # "Ok" THEN Failed(b.res, << b.tx >>)
        ELSE IF OutsideWindow(device, address, length) THEN Failed("InvalidRequest", << b.tx >>)
        ELSE IF max_read_chunk_size = 0 THEN Failed("Panic", << b.tx >>)
        ELSE Built(ReadAtOp(length, address), << b.tx >>)

\* The packets a device may answer a BootloaderInfo with: ones that end
\* within the fixed fields (16 bytes: without a version), and ones with a
\* remainder of ASCII bytes (112), 0 bytes and bytes that are not UTF-8 (255),
\* with a build date of 8 digits or of 1.
InfoPackets ==
    { Packet(n, 20200131, <<>>) : n \in {0, 3, 16, 18} }
        \cup { Packet(INFO_FIXED_LENGTH + Len(rest), date, rest) :
                  date \in {7, 20200131}, rest \in SeqsUpTo({0, 112, 255}, MaxLen) }

\* How the device may treat a BootloaderInfo query the user makes
PacketOutcomes ==
    { << f, NoPacket >> : f \in Faults(0, 64) \ {"none"} }
        \cup { << "none", packet >> : packet \in InfoPackets }

\* How the device may treat the BootloaderInfo query of a handle-level call
InfoOutcomes ==
    { <<f, "valid">> : f \in Faults(0, 64) } \cup { <<"none", r>> : r \in InfoResponses }

\* ------------------------------------------------------------------ actions
Init ==
    /\ device \in Windows
    /\ bootloader_info = device
    /\ in_buffer_length \in InBufferLengths
    /\ out_buffer_length \in OutBufferLengths
    /\ op = NoOp
    /\ call = NoCall
    /\ ret = Idle
    /\ log = <<>>
    /\ history = <<>>
    /\ targets = <<>>
    /\ picked = NoTarget

CallableWhileBorrowed == ret.tag \in {"Idle", "OkOp", "SomeOk", "SomeErr", "None"}

\* An entry point can be called when no operation borrows the handle, the
\* process has not panicked and the previous result has been taken.
Callable == op.kind = "none" /\ ret.tag = "Idle"

\* A call of an entry point that hands back r
Enter(fn, api, start, length, pages, r) ==
    /\ call' = [NoCall EXCEPT !.fn = fn, !.api = api, !.start = start, !.length = length,
                               !.pages = pages, !.tx0 = Len(r.txs)]
    /\ ret' = r.ret
    /\ op' = r.op
    /\ log' = r.txs
    /\ history' = <<>>
    /\ UNCHANGED << session, discovery >>

CallTargetEraseArea ==
    /\ Callable
    /\ \E start \in StartsOf(device), length \in AreaLengthsOf(device) :
           Enter("erase_area", "Target", start, length, <<>>, TargetEraseArea(start, length))

CallTargetErasePages ==
    /\ Callable
    /\ \E pages \in SeqsUpTo(PageIndices, MaxPages) :
           Enter("erase_pages", "Target", 0, 0, pages, TargetErasePages(pages))

CallTargetProgramAt ==
    /\ Callable
    /\ \E address \in StartsOf(device), length \in DataLens :
           Enter("program_at", "Target", address, length, <<>>, TargetProgramAt(length, address))

CallTargetReadAt ==
    /\ Callable
    /\ \E address \in StartsOf(device), length \in DataLens :
           Enter("read_at", "Target", address, length, <<>>, TargetReadAt(length, address))

CallTargetErasePage ==
    /\ Callable
    /\ \E page \in PageIndices :
           \E out \in { <<f, 0>> : f \in Faults(1, 1) } \cup { <<"none", c>> : c \in 0 .. (U8 - 1) } :
               Enter("erase_page", "Target", 0, 0, << page >>, TargetErasePage(page, out[1], out[2]))

CallHandleEraseArea ==
    /\ Callable
    /\ \E start \in StartsOf(device), length \in AreaLengthsOf(device), io \in InfoOutcomes :
           Enter("erase_area", "TargetHandle", start, length, <<>>,
                 HandleEraseArea(start, length, io[1], io[2]))

CallHandleErasePages ==
    /\ Callable
    /\ \E pages \in SeqsUpTo(PageIndices, MaxPages), io \in InfoOutcomes :
           Enter("erase_pages", "TargetHandle", 0, 0, pages, HandleErasePages(pages, io[1], io[2]))

CallHandleProgramAt ==
    /\ Callable
    /\ \E address \in StartsOf(device), length \in DataLens, io \in InfoOutcomes :
           Enter("program_at", "TargetHandle", address, length, <<>>,
                 HandleProgramAt(length, address, io[1], io[2]))

CallHandleReadAt ==
    /\ Callable
    /\ \E address \in StartsOf(device), length \in DataLens, io \in InfoOutcomes :
           Enter("read_at", "TargetHandle", address, length, <<>>,
                 HandleReadAt(length, address, io[1], io[2]))

\* A call that is given the buffer data
EnterWith(fn, api, data, address, r) ==
    /\ call' = [NoCall EXCEPT !.fn = fn, !.api = api, !.start = address,
                               !.length = Len(data), !.data = data, !.tx0 = Len(r.txs)]
    /\ ret' = r.ret
    /\ op' = r.op
    /\ log' = r.txs
    /\ history' = <<>>
    /\ UNCHANGED << session, discovery >>

CallBootloaderInfo ==
    /\ Callable
    /\ \E out \in PacketOutcomes :
           Enter("bootloader_info", "TargetHandle", 0, 0, <<>>,
                 bootloader_info_call(out[1], out[2]))

CallTargetVerify ==
    /\ Callable
    /\ \E data \in VerifyData, address \in VerifyStartsOf(device) :
           \E out \in CrcOutcomes(data) :
               EnterWith("verify", "Target", data, address,
                         TargetVerify(data, address, out[1], out[2]))

CallHandleVerify ==
    /\ Callable
    /\ \E data \in VerifyData, address \in VerifyStartsOf(device) :
           \E out \in CrcOutcomes(data) :
               EnterWith("verify", "TargetHandle", data, address,
                         HandleVerify(data, address, out[1], out[2]))

\* The advances that returned None so far
Nones(h) == Len(SelectSeq(h, LAMBDA it : it.tag = "None"))

\* An item of the history: what next() returned and how many transactions the
\* log held afterwards.
Seen(item, tx) == [tag |-> item.tag, n |-> item.n, err |-> item.err, tx |-> tx]

\* One call of next() on the current operation
Advance ==
    /\ op.kind # "none"
    /\ Nones(history) < MaxExtra
    /\ \E out \in Outcomes(op) :
          LET r == OpNext(op, out[1], out[2])
          IN  /\ op' = r.op
              /\ ret' = r.item
              /\ log' = log \o r.txs
              /\ history' = Append(history, Seen(r.item, Len(log) + Len(r.txs)))
    /\ UNCHANGED << session, call, discovery >>

\* The items of a run of next() calls as the history keeps them
RECURSIVE SeenAll(_, _, _)
SeenAll(items, tx, k) ==
    IF k > Len(items) THEN <<>>
    ELSE LET t == IF items[k].tag = "None" THEN tx ELSE tx + 1
         IN  << Seen(items[k], t) >> \o SeenAll(items, t, k + 1)

\* One call of execute() on the current operation
Execute ==
    /\ op.kind # "none"
    /\ Nones(history) < MaxExtra
    /\ \E failAt \in 0 .. Remaining(op) :
       \E bad \in (IF failAt = 0 THEN { <<"none", 0>> } ELSE BadOutcomes(op)) :
          LET r == Drive([op |-> op, items |-> <<>>, txs |-> <<>>], 1, failAt, bad)
              res == ExecuteResult(r.items)
          IN  /\ op' = r.op
              /\ ret' = [res EXCEPT !.n = Len(r.items)]
              /\ log' = log \o r.txs
              /\ history' = history \o SeenAll(r.items, Len(log), 1)
    /\ UNCHANGED << session, call, discovery >>

\* The caller drops the operation, which gives the handle back, or takes the
\* result of a call that built none. A panic ends the process.
Drop ==
    /\ ret.tag \notin {"Idle", "Panic"}
    /\ op' = NoOp
    /\ call' = NoCall
    /\ ret' = Idle
    /\ log' = <<>>
    /\ history' = <<>>
    /\ UNCHANGED << session, discovery >>

Next ==
    \/ CallTargetEraseArea
    \/ CallTargetErasePages
    \/ CallTargetProgramAt
    \/ CallTargetReadAt
    \/ CallTargetErasePage
    \/ CallHandleEraseArea
    \/ CallHandleErasePages
    \/ CallHandleProgramAt
    \/ CallHandleReadAt
    \/ CallBootloaderInfo
    \/ CallTargetVerify
    \/ CallHandleVerify
    \/ Advance
    \/ Execute
    \/ Drop

Spec == Init /\ [][Next]_vars

\* ------------------------------------------------------ context.rs: discovery
\* The devices a bus may hold: punt targets with serial "A" or "B", and a
\* device that fails the identity check.
DeviceKinds ==
    { [serial |-> "A", punt |-> TRUE], [serial |-> "B", punt |-> TRUE],
      [serial |-> "A", punt |-> FALSE] }

\* The serials a caller may ask for
AskedSerials == {"A", "B", "C"}

\* get_serial: the serial of a device that passes the identity check
get_serial(dev) == [ok |-> dev.punt, serial |-> dev.serial]

\* UsbContext::find_targets over the enumerated devices, from position k on
RECURSIVE find_targets_from(_, _)
find_targets_from(devs, k) ==
    IF k > Len(devs) THEN <<>>
    ELSE (IF get_serial(devs[k]).ok
          THEN << TargetInfo(get_serial(devs[k]).serial, 1, k) >>
          ELSE <<>>) \o find_targets_from(devs, k + 1)

find_targets_aborting(devs, enumerated) ==
    IF ~enumerated THEN [res |-> "IoError", list |-> <<>>]
    ELSE IF \E k \in 1 .. Len(devs) : ~get_serial(devs[k]).ok
         THEN [res |-> "UnsupportedTarget", list |-> <<>>]
    ELSE [res |-> "Ok", list |-> find_targets_from(devs, 1)]

\* UsbContext::find_targets: Err(IoError) when the enumeration itself fails
find_targets(devs, enumerated) ==
    IF enumerated THEN [res |-> "Ok", list |-> find_targets_from(devs, 1)]
    ELSE [res |-> "IoError", list |-> <<>>]

\* UsbContext::find_targets as the caller sees it
find_targets_call(devs, enumerated) ==
    LET f == find_targets(devs, enumerated)
    IN  IF f.res = "Ok" THEN [Item("Ok", Len(f.list), "") EXCEPT !.val = f.list]
        ELSE Item("Err", 0, f.res)

\* TargetHandle::from_usb_device: opens the device and reads the capacities
\* of its two bulk endpoints, or fails with a transport error
from_usb_device(opening) == IF opening = "Ok" THEN "Ok" ELSE "IoError"

\* TargetInfo::open: the device at the bus number and address of info is
\* looked up among the enumerated ones (all on bus 1, at the address of
\* their position); it is opened and queried when it passes the identity
\* check with the serial of info.
open(devs, info, enumerated, opening, fault, packet) ==
    LET refused(err) == [ret |-> Item("Err", 0, err), opened |-> FALSE, txs |-> <<>>]
    IN  IF ~enumerated THEN refused("IoError")
        ELSE IF info.usb_bus_number # 1 \/ info.usb_bus_address \notin 1 .. Len(devs)
        THEN refused("TargetNotFound")
        ELSE IF ~get_serial(devs[info.usb_bus_address]).ok THEN refused("UnsupportedTarget")
        ELSE IF get_serial(devs[info.usb_bus_address]).serial # info.serial
        THEN refused("TargetNotFound")
        ELSE IF from_usb_device(opening) # "Ok" THEN refused("IoError")
        ELSE LET b == bootloader_info_call(fault, packet)
             IN  [ret |-> b.ret, opened |-> TRUE, txs |-> b.txs]

\* The TargetInfo values open is called on: what enumeration may have
\* reported earlier, a bus that holds no device, an address beyond the last
OpenInfos ==
    { TargetInfo(serial, 1, address) : serial \in {"A", "B"}, address \in 1 .. (MaxDevices + 1) }
        \cup { TargetInfo("A", 2, 1) }

\* How opening the device and its BootloaderInfo query may go
OpenOutcomes ==
    { << "IoError", "none", NoPacket >>, << "Ok", "claim", NoPacket >>,
      << "Ok", "bulk_in", NoPacket >>,
      << "Ok", "none", Packet(INFO_WORDS_LENGTH, 20200131, <<>>) >>,
      << "Ok", "none", Packet(INFO_FIXED_LENGTH + 1, 20200131, << 0 >>) >>,
      << "Ok", "none", Packet(INFO_FIXED_LENGTH + 2, 20200131, << 112, 112 >>) >> }

pick_target_first_of_many(devs, serial, enumerated) ==
    LET f == find_targets(devs, enumerated)
        matching == SelectSeq(f.list, LAMBDA t : t.serial = serial.value)
    IN  IF f.res # "Ok" THEN [res |-> f.res, target |-> NoTarget]
        ELSE IF Len(f.list) = 0 THEN [res |-> "TargetNotFound", target |-> NoTarget]
        ELSE IF serial.given
             THEN IF Len(matching) > 0 THEN [res |-> "Ok", target |-> matching[1]]
                  ELSE [res |-> "TargetNotFound", target |-> NoTarget]
        ELSE [res |-> "Ok", target |-> f.list[1]]

pick_target_serial_needs_single(devs, serial, enumerated) ==
    LET f == find_targets(devs, enumerated)
        matching == SelectSeq(f.list, LAMBDA t : t.serial = serial.value)
    IN  IF f.res # "Ok" THEN [res |-> f.res, target |-> NoTarget]
        ELSE IF Len(f.list) = 0 THEN [res |-> "TargetNotFound", target |-> NoTarget]
        ELSE IF Len(f.list) > 1 THEN [res |-> "TooManyMatches", target |-> NoTarget]
        ELSE IF serial.given /\ Len(matching) = 0
             THEN [res |-> "TargetNotFound", target |-> NoTarget]
        ELSE [res |-> "Ok", target |-> f.list[1]]

\* UsbContext::pick_target
pick_target(devs, serial, enumerated) ==
    LET f == find_targets(devs, enumerated)
        matching == SelectSeq(f.list, LAMBDA t : t.serial = serial.value)
    IN  IF f.res # "Ok" THEN [res |-> f.res, target |-> NoTarget]
        ELSE IF Len(f.list) = 0 THEN [res |-> "TargetNotFound", target |-> NoTarget]
        ELSE IF serial.given
             THEN IF Len(matching) > 0 THEN [res |-> "Ok", target |-> matching[1]]
                  ELSE [res |-> "TargetNotFound", target |-> NoTarget]
        ELSE IF Len(f.list) = 1 THEN [res |-> "Ok", target |-> f.list[1]]
        ELSE [res |-> "TooManyMatches", target |-> NoTarget]

\* Before a session is opened there is no window and no endpoint capacity.
InitDiscovery ==
    /\ targets \in SeqsUpTo(DeviceKinds, MaxDevices)
    /\ picked = NoTarget
    /\ device = [application_base |-> 0, application_size |-> 0]
    /\ bootloader_info = device
    /\ in_buffer_length = 0
    /\ out_buffer_length = 0
    /\ op = NoOp
    /\ call = NoCall
    /\ ret = Idle
    /\ log = <<>>
    /\ history = <<>>

\* One call of pick_target
PickTarget ==
    /\ ret.tag = "Idle"
    /\ \E serial \in {NoSerial} \cup { SomeSerial(v) : v \in AskedSerials },
          enumerated \in BOOLEAN :
          LET r == pick_target(targets, serial, enumerated)
          IN  /\ call' = [NoCall EXCEPT !.fn = "pick_target", !.api = "UsbContext",
                                        !.serial = serial]
              /\ ret' = IF r.res = "Ok" THEN Item("Ok", 0, "") ELSE Item("Err", 0, r.res)
              /\ picked' = r.target
    /\ UNCHANGED << session, op, log, history, targets >>

\* One call of find_targets
FindTargets ==
    /\ ret.tag = "Idle"
    /\ \E enumerated \in BOOLEAN :
          /\ call' = [NoCall EXCEPT !.fn = "find_targets", !.api = "UsbContext",
                                    !.enumerated = enumerated]
          /\ ret' = find_targets_call(targets, enumerated)
    /\ UNCHANGED << session, op, log, history, targets, picked >>

\* One call of TargetInfo::open. The Target it returns holds the handle with
\* the two endpoint capacities and the BootloaderInfo it fetched.
Open ==
    /\ ret.tag = "Idle"
    /\ \E info \in OpenInfos, enumerated \in BOOLEAN, out \in OpenOutcomes,
          in_length \in InBufferLengths, out_length \in OutBufferLengths :
          LET r == open(targets, info, enumerated, out[1], out[2], out[3])
          IN  /\ call' = [NoCall EXCEPT !.fn = "open", !.api = "TargetInfo",
                                        !.enumerated = enumerated, !.opened = r.opened]
              /\ picked' = info
              /\ ret' = r.ret
              /\ log' = r.txs
              /\ IF r.ret.tag = "Ok"
                 THEN /\ in_buffer_length' = in_length
                      /\ out_buffer_length' = out_length
                      /\ bootloader_info' =
                             [application_base |-> r.ret.val.application_base,
                              application_size |-> r.ret.val.application_size]
                 ELSE UNCHANGED << in_buffer_length, out_buffer_length, bootloader_info >>
    /\ UNCHANGED << device, op, history, targets >>

\* The caller takes the result of pick_target or find_targets
TakePicked ==
    /\ ret.tag # "Idle"
    /\ call.fn # "open"
    /\ call' = NoCall
    /\ ret' = Idle
    /\ picked' = NoTarget
    /\ UNCHANGED << session, op, log, history, targets >>

\* The caller drops the Target, or takes the error of open
CloseTarget ==
    /\ call.fn = "open"
    /\ ret.tag \in {"Ok", "Err"}
    /\ call' = NoCall
    /\ ret' = Idle
    /\ picked' = NoTarget
    /\ log' = <<>>
    /\ in_buffer_length' = 0
    /\ out_buffer_length' = 0
    /\ bootloader_info' = device
    /\ UNCHANGED << device, op, history, targets >>

NextDiscovery == PickTarget \/ FindTargets \/ Open \/ TakePicked \/ CloseTarget

SpecDiscovery == InitDiscovery /\ [][NextDiscovery]_vars

\* ------------------------------------------------------------ flash.rs: pages
\* Addresses Page::from_address is given: the first, second and last byte of
\* pages up to and past index 255, and addresses below FLASH_BASE.
PageAddresses ==
    { FLASH_BASE + p * PAGE_SIZE + delta :
          p \in {0, 1, 2, 127, 254, 255, 256, 257, 511, 512}, delta \in {0, 1, PAGE_SIZE - 1} }
        \cup { 0, FLASH_BASE - PAGE_SIZE, FLASH_BASE - 1 }

\* Whether the build checks arithmetic overflow (debug) or not (release)
Builds == {"debug", "release"}

\* Page::from_address: address - FLASH_BASE underflows for an address below
\* FLASH_BASE, which panics where overflow is checked and wraps where it is
\* not; the quotient is cut to 8 bits by `as u8`.
from_address(build, address) ==
    IF address < FLASH_BASE /\ build = "debug" THEN [panic |-> TRUE, page |-> 0]
    ELSE [panic |-> FALSE, page |-> PageFromAddress(address)]

\* No session is open while pages are computed.
InitPages ==
    /\ targets = <<>>
    /\ picked = NoTarget
    /\ device = [application_base |-> 0, application_size |-> 0]
    /\ bootloader_info = device
    /\ in_buffer_length = 0
    /\ out_buffer_length = 0
    /\ op = NoOp
    /\ call = NoCall
    /\ ret = Idle
    /\ log = <<>>
    /\ history = <<>>

\* One call of Page::from_address
FromAddress ==
    /\ ret.tag = "Idle"
    /\ \E address \in PageAddresses, build \in Builds :
          LET r == from_address(build, address)
          IN  /\ call' = [NoCall EXCEPT !.fn = "from_address", !.api = "Page", !.start = address]
              /\ ret' = IF r.panic THEN Item("Panic", 0, "Panic") ELSE Item("Page", r.page, "")
    /\ UNCHANGED << session, discovery, op, log, history >>

\* One call of Page::from_index
FromIndex ==
    /\ ret.tag = "Idle"
    /\ \E index \in 0 .. (U8 - 1) :
          /\ call' = [NoCall EXCEPT !.fn = "from_index", !.api = "Page", !.start = index]
          /\ ret' = Item("Page", index, "")
    /\ UNCHANGED << session, discovery, op, log, history >>

\* The caller takes the page
TakePage ==
    /\ ret.tag = "Page"
    /\ call' = NoCall
    /\ ret' = Idle
    /\ UNCHANGED << session, discovery, op, log, history >>

NextPages == FromAddress \/ FromIndex \/ TakePage

SpecPages == InitPages /\ [][NextPages]_vars

\* ------------------------------------------------ the checksum on its own
\* The buffers crc32 is applied to: all of up to MaxLen + 2 bytes over three
\* byte values, the bytes 1..5, and the ASCII digits "123456789"
CrcInputs ==
    SeqsUpTo({0, 1, 255}, MaxLen + 2)
        \cup { << 1, 2, 3, 4, 5 >>, << 49, 50, 51, 52, 53, 54, 55, 56, 57 >> }

\* No session is open while checksums are computed.
InitCrc ==
    /\ targets = <<>>
    /\ picked = NoTarget
    /\ device = [application_base |-> 0, application_size |-> 0]
    /\ bootloader_info = device
    /\ in_buffer_length = 0
    /\ out_buffer_length = 0
    /\ op = NoOp
    /\ call = NoCall
    /\ ret = Idle
    /\ log = <<>>
    /\ history = <<>>

\* One call of crc32; the value returned is kept as << high half, low half >>
Crc32Call ==
    /\ ret.tag = "Idle"
    /\ \E buff \in CrcInputs :
          /\ call' = [NoCall EXCEPT !.fn = "crc32", !.api = "crc32", !.data = buff]
          /\ ret' = [Item("Crc", 0, "") EXCEPT !.val = crc32(buff)]
    /\ UNCHANGED << session, discovery, op, log, history >>

\* The caller takes the checksum
TakeCrc ==
    /\ ret.tag = "Crc"
    /\ call' = NoCall
    /\ ret' = Idle
    /\ UNCHANGED << session, discovery, op, log, history >>

NextCrc == Crc32Call \/ TakeCrc

SpecCrc == InitCrc /\ [][NextCrc]_vars

\* ================================================================== claims
\* The state right after an entry point returned (or panicked)
AfterCall == ret.tag \in {"OkOp", "Ok", "Err", "Panic"}

\* [start, start+length) lies inside the window the device reports
InWindow(start, length) ==
    /\ device.application_base <= start
    /\ start + length <= device.application_base + device.application_size

RangeCalls == {"erase_area", "program_at", "read_at"}

\* The transactions of the log that belong to an operation
OpCommands == {"ErasePage", "Program", "ReadMemory"}

OpTxs == SelectSeq(log, LAMBDA t : t.cmd \in OpCommands)

Somes(h) == SelectSeq(h, LAMBDA it : it.tag # "None")

Errs(h) == SelectSeq(h, LAMBDA it : it.tag = "SomeErr")

\* C1: once an advance of an Erase, Program or Read operation has returned a
\* failure, every later advance returns None and issues no transaction.
C1_Fused ==
    \A j, k \in 1 .. Len(history) :
        (j < k /\ history[j].tag = "SomeErr")
            => (history[k].tag = "None" /\ history[k].tx = history[j].tx)

\* C1 witness: an erase failed with pages still pending and was advanced twice more.
C1_Witness ==
    /\ op.kind = "Erase"
    /\ Len(op.pages) > 0
    /\ Len(history) >= 3
    /\ history[Len(history) - 2].tag = "SomeErr"
    /\ history[Len(history)].tag = "None"

TruePage(address) == (address - FLASH_BASE) \div PAGE_SIZE

\* The pages that overlap [start, start+length), length > 0
Overlapping(start, length) == TruePage(start) .. TruePage(start + length - 1)

\* The page indices of the ErasePage transactions the device carried out
ErasedPages ==
    LET done == SelectSeq(log, LAMBDA t : t.cmd = "ErasePage" /\ t.fault = "none" /\ t.status = 0)
    IN  [k \in 1 .. Len(done) |-> done[k].arg]

\* An erase_area operation over a non-empty range inside the window that has
\* been driven to completion with every step succeeding
AreaErased ==
    /\ op.kind = "Erase"
    /\ call.fn = "erase_area"
    /\ call.length > 0
    /\ InWindow(call.start, call.length)
    /\ op.done
    /\ Errs(history) = <<>>

\* C4 as stated: driving the operation erase_area returns for a non-empty range
\* inside the window to completion erases each page overlapping the range
\* exactly once and no other page, and total() is the number of those pages.
C4_Claim ==
    AreaErased =>
        /\ Total(op) = Cardinality(Overlapping(call.start, call.length))
        /\ Len(ErasedPages) = Total(op)
        /\ { ErasedPages[k] : k \in 1 .. Len(ErasedPages) } = Overlapping(call.start, call.length)

\* The same, for windows that end at or below page index 255 (not a claim's
\* formula: the case in which the page arithmetic does not truncate).
AreaErasedBelowPageLimit ==
    (AreaErased /\ TruePage(device.application_base + device.application_size - 1) < U8)
        => /\ Total(op) = Cardinality(Overlapping(call.start, call.length))
           /\ Len(ErasedPages) = Total(op)
           /\ { ErasedPages[k] : k \in 1 .. Len(ErasedPages) }
                 = Overlapping(call.start, call.length)

\* A zero-length request at an address the checks accept
ZeroLengthCall ==
    /\ call.fn \in RangeCalls
    /\ call.length = 0
    /\ InWindow(call.start, 0)
    /\ call.fn = "program_at" => call.start % 2 = 0

\* C5 as stated: a zero-length erase_area, program_at or read_at request yields
\* an operation with total() = 0 whose advances return None, and no
\* transaction is issued by the request or by advancing the operation.
C5_Claim ==
    ZeroLengthCall =>
        /\ AfterCall => (ret.tag = "OkOp" /\ Total(op) = 0 /\ log = <<>>)
        /\ op.kind # "none" =>
              (log = <<>> /\ \A k \in 1 .. Len(history) : history[k].tag = "None")

Ceil(a, b) == (a + b - 1) \div b

Oks(h) == SelectSeq(h, LAMBDA it : it.tag = "SomeOk")

\* C6: a Program operation over L bytes with chunk size C = out_buffer_length - 4
\* has total() = L; its k-th progress value is min(k*C, L), which equals
\* total() only for k = ceil(L/C); it yields ceil(L/C) values when no step fails.
C6_ProgramProgress ==
    op.kind = "Program" =>
        LET C == op.chunk_size
            L == op.length
            ok == Oks(history)
        IN  /\ C = out_buffer_length - ADDRESS_HEADER
            /\ C >= 1
            /\ L = call.length
            /\ Total(op) = L
            /\ Len(ok) <= Ceil(L, C)
            /\ \A k \in 1 .. Len(ok) :
                  /\ ok[k].n = Min(k * C, L)
                  /\ (ok[k].n = Total(op)) <=> (k = Ceil(L, C))
            /\ (Errs(history) = <<>> /\ Nones(history) > 0) => Len(ok) = Ceil(L, C)

\* C6 witness: 300 bytes in chunks of 64 gave 64, 128, 192, 256, 300 and then None.
C6_Witness ==
    /\ op.kind = "Program"
    /\ op.length = 300
    /\ op.chunk_size = 64
    /\ Len(history) = 6
    /\ [k \in 1 .. 5 |-> history[k].n] = << 64, 128, 192, 256, 300 >>
    /\ \A k \in 1 .. 5 : history[k].tag = "SomeOk"
    /\ history[6].tag = "None"

\* The error of a handle-level call whose checks refuse it, given how the
\* metadata query q went
RefusalAfter(q) ==
    IF q.fault # "none" THEN "IoError"
    ELSE IF q.resp = "short" THEN "Panic"
    ELSE IF q.resp = "bad_string" THEN "MalformedResponse"
    ELSE "InvalidRequest"

OddProgramCall == AfterCall /\ call.fn = "program_at" /\ call.start % 2 = 1

LastRun == SubSeq(history, Len(history) - ret.n + 1, Len(history))

\* The transactions the log held before that run
TxBeforeRun ==
    IF Len(history) = ret.n THEN call.tx0 ELSE history[Len(history) - ret.n].tx

\* The advances an operation needs when no step fails
StepsOf(o) == IF o.kind = "Erase" THEN o.count ELSE Ceil(o.length, o.chunk_size)

\* C8: execute() advances the operation until it is exhausted; it returns
\* Err(e) exactly when a step of the run failed, e being the error of that
\* step, which is the only failing and the last step of the run; else Ok(()).
\* The transactions it issues are as many as the failing step's position in
\* the run, or all that were pending when no step failed.
C8_Execute ==
    ret.tag \in {"ExecOk", "ExecErr"} =>
        LET run == LastRun
            steps == Somes(run)
        IN  /\ ret.n = Len(run)
            /\ run[Len(run)].tag = "None"
            /\ Remaining(op) = 0
            /\ (ret.tag = "ExecErr") <=> (Errs(run) # <<>>)
            /\ Len(Errs(run)) <= 1
            /\ ret.tag = "ExecErr" =>
                  /\ steps[Len(steps)].tag = "SomeErr"
                  /\ ret.err = steps[Len(steps)].err
                  /\ \A k \in 1 .. (Len(steps) - 1) : steps[k].tag = "SomeOk"
            /\ Len(log) - TxBeforeRun = Len(steps)
            /\ (ret.tag = "ExecOk" /\ Errs(history) = <<>>) =>
                  Len(Somes(history)) = StepsOf(op)

\* C8 witness: execute() on a fresh operation failed at its third step.
C8_Witness ==
    /\ ret.tag = "ExecErr"
    /\ Len(history) = ret.n
    /\ ret.n = 4
    /\ history[3].tag = "SomeErr"
    /\ StepsOf(op) > 3

\* C9: an ErasePage transaction whose transfer succeeded gives success for
\* status 0 and for no other status, EraseError(Prohibited) for 1,
\* EraseError(VerifyFailed) for 2 and EraseError(Unknown) for 3..255.
C9_EraseStatus ==
    (/\ ret.tag \in {"Ok", "Err", "SomeOk", "SomeErr"}
     /\ log # <<>>
     /\ log[Len(log)].cmd = "ErasePage"
     /\ log[Len(log)].fault = "none")
        => LET status == log[Len(log)].status
           IN  /\ status \in 0 .. 255
               /\ (ret.tag \in {"Ok", "SomeOk"}) <=> (status = 0)
               /\ status = 1 => ret.err = "EraseError(Prohibited)"
               /\ status = 2 => ret.err = "EraseError(VerifyFailed)"
               /\ status >= 3 => ret.err = "EraseError(Unknown)"

\* C9 witness: the device answered a single-page erase with status 9.
C9_Witness ==
    /\ call.fn = "erase_page"
    /\ log # <<>>
    /\ log[Len(log)].fault = "none"
    /\ log[Len(log)].status = 9
    /\ ret.err = "EraseError(Unknown)"

\* The targets discovery reports: the devices that pass the identity check
Discovered == SelectSeq(targets, LAMBDA dev : dev.punt)

\* pick_target returned and the enumeration it rests on did not fail
AfterPick == call.fn = "pick_target" /\ ret.tag \in {"Ok", "Err"} /\ ret.err # "IoError"

\* C10: pick_target with no serial returns the target when exactly one is
\* discovered, fails with TargetNotFound when none is and with TooManyMatches
\* when two or more are.
C10_PickWithoutSerial ==
    (AfterPick /\ ~call.serial.given) =>
        /\ Len(Discovered) = 0 => (ret.err = "TargetNotFound" /\ picked = NoTarget)
        /\ Len(Discovered) = 1 =>
              /\ ret.tag = "Ok"
              /\ picked.serial = Discovered[1].serial
              /\ targets[picked.usb_bus_address].punt
        /\ Len(Discovered) >= 2 => (ret.err = "TooManyMatches" /\ picked = NoTarget)

\* C10 witness: two targets with different serials (and a foreign device) are
\* on the bus and no serial was given.
C10_Witness ==
    /\ AfterPick
    /\ ~call.serial.given
    /\ Len(targets) = 3
    /\ Len(Discovered) = 2
    /\ Discovered[1].serial # Discovered[2].serial
    /\ ret.err = "TooManyMatches"


\* The discovered targets that carry the serial asked for
Matching == SelectSeq(Discovered, LAMBDA dev : dev.serial = call.serial.value)

\* C11: pick_target with a serial returns a discovered target with that
\* serial, however many targets are discovered (the first such target in
\* enumeration order), and fails with TargetNotFound, never TooManyMatches,
\* when no discovered target has it, even if other targets are discovered.
C11_PickWithSerial ==
    (AfterPick /\ call.serial.given) =>
        /\ ret.err # "TooManyMatches"
        /\ Len(Matching) = 0 => (ret.err = "TargetNotFound" /\ picked = NoTarget)
        /\ Len(Matching) > 0 =>
              /\ ret.tag = "Ok"
              /\ picked.serial = call.serial.value
              /\ picked.usb_bus_address \in 1 .. Len(targets)
              /\ targets[picked.usb_bus_address].punt
              /\ targets[picked.usb_bus_address].serial = call.serial.value
              /\ \A k \in 1 .. (picked.usb_bus_address - 1) :
                    ~(targets[k].punt /\ targets[k].serial = call.serial.value)

\* C11 witness: serial "B" was asked for with three targets discovered, two of
\* them carrying it, and the first of those was returned.
C11_Witness ==
    /\ AfterPick
    /\ call.serial = SomeSerial("B")
    /\ Len(Discovered) = 3
    /\ Len(Matching) = 2
    /\ Discovered[1].serial = "A"
    /\ ret.tag = "Ok"
    /\ picked.usb_bus_address = 2

\* C11 second case (not a claim's formula): a serial nobody carries was asked
\* for while two targets are discovered.
C11_NotFoundAmongOthers ==
    /\ AfterPick
    /\ call.serial = SomeSerial("C")
    /\ Len(Discovered) = 2
    /\ ret.err = "TargetNotFound"


C12_Mismatch ==
    /\ AfterCall
    /\ call.fn = "verify"
    /\ call.data = << 1, 2, 3, 4, 5 >>
    /\ log[1].fault = "none"
    /\ log[1].crc = << 226, 123, 35, 186 >>
    /\ ret.err = "VerificationError"

\* C12 third case (not a claim's formula): no byte of the answer arrived,
\* the buffer stayed zero, and data whose checksum is 0 was verified.
C12_EmptyAnswerVerifies ==
    /\ AfterCall
    /\ call.fn = "verify"
    /\ call.data = << 255, 255, 255, 255 >>
    /\ log[1].crc = << 0, 0, 0, 0 >>
    /\ ret.tag = "Ok"


\* The page ret.n holds the address it was made from
HoldsAddress == PageBegin(ret.n) <= call.start /\ call.start <= PageEnd(ret.n)

\* Page ret.n has the bytes from begin() to end(), PAGE_SIZE of them, follows
\* the page before it without a gap and shares no byte with another page.
Contiguous ==
    /\ PageEnd(ret.n) - PageBegin(ret.n) = PAGE_SIZE - 1
    /\ ret.n > 0 => PageBegin(ret.n) = PageEnd(ret.n - 1) + 1
    /\ \A other \in 0 .. (U8 - 1) :
          other # ret.n => (PageEnd(other) < PageBegin(ret.n) \/ PageEnd(ret.n) < PageBegin(other))

\* C13 as stated: every address that Page::from_address maps to a page p
\* satisfies p.begin() <= address <= p.end(), and the pages are contiguous
\* and do not overlap (stated of the addresses from FLASH_BASE on, for which
\* the subtraction does not underflow).
C13_Claim ==
    /\ (call.fn = "from_address" /\ ret.tag = "Page" /\ call.start >= FLASH_BASE) => HoldsAddress
    /\ (call.fn = "from_index" /\ ret.tag = "Page") => Contiguous

\* The part of C13 that holds (not a claim's formula): the 256 pages are
\* contiguous and do not overlap, and an address inside them, from FLASH_BASE
\* to the end of page 255, is mapped to the page that holds it.
PagesWithinFlash ==
    /\ (/\ call.fn = "from_address"
        /\ FLASH_BASE <= call.start
        /\ call.start <= PageEnd(U8 - 1))
          => (ret.tag = "Page" /\ HoldsAddress /\ ret.n = TruePage(call.start))
    /\ (call.fn = "from_index" /\ ret.tag = "Page") => Contiguous

\* An address past page 255 was mapped to a page that does not hold it.
PastLastPage ==
    /\ call.fn = "from_address"
    /\ call.start = FLASH_BASE + U8 * PAGE_SIZE
    /\ ret.tag = "Page"
    /\ ret.n = 0


\* The pages an erase_page or erase_pages call asked for
Requested == { call.pages[k] : k \in 1 .. Len(call.pages) }

\* The pages that cover the window the device reports
WindowPages ==
    TruePage(device.application_base)
        .. TruePage(device.application_base + device.application_size - 1)

\* An erase_page or erase_pages call that asked for a page outside them
OutsidePageCall ==
    /\ AfterCall
    /\ call.fn \in {"erase_page", "erase_pages"}
    /\ \E page \in Requested : page \notin WindowPages

\* C14 as stated, for the entry points of Target: erase_page and erase_pages
\* fail with InvalidRequest and issue no ErasePage transaction, for no page
\* of the list, whenever a requested page lies outside the pages that cover
\* the application window.
C14_Claim ==
    (OutsidePageCall /\ call.api = "Target") =>
        /\ ret.tag = "Err"
        /\ ret.err = "InvalidRequest"
        /\ op.kind = "none"
        /\ log = <<>>

\* The same for windows that end at or below page index 255 (not a claim's
\* formula): there the call is refused, all of the list with it; by Target
\* with InvalidRequest and no transaction, by TargetHandle after its
\* BootloaderInfo query, with InvalidRequest or with that query's failure.
PagesRefusedBelowPageLimit ==
    (OutsidePageCall /\ TruePage(device.application_base + device.application_size - 1) < U8)
        => /\ ret.tag \in {"Err", "Panic"}
           /\ op.kind = "none"
           /\ OpTxs = <<>>
           /\ call.api = "Target" => (ret.err = "InvalidRequest" /\ log = <<>>)
           /\ call.api = "TargetHandle" => (Len(log) = 1 /\ ret.err = RefusalAfter(log[1]))

\* A list with one page inside such a window and one outside was refused whole.
PagesRefusedWhole ==
    /\ OutsidePageCall
    /\ call.api = "Target"
    /\ call.fn = "erase_pages"
    /\ Len(call.pages) = 2
    /\ call.pages[1] \in WindowPages
    /\ ret.err = "InvalidRequest"


\* The command an operation issues
CommandOf(kind) ==
    IF kind = "Erase" THEN "ErasePage" ELSE IF kind = "Program" THEN "Program" ELSE "ReadMemory"

OpLog == SubSeq(log, call.tx0 + 1, Len(log))

\* The work one transaction of an operation stands for: a page, or the bytes
\* of a chunk
WorkOf(tx) == IF tx.cmd = "ErasePage" THEN 1 ELSE tx.wlen - ADDRESS_HEADER

RECURSIVE SumWork(_)
SumWork(txs) == IF txs = <<>> THEN 0 ELSE WorkOf(Head(txs)) + SumWork(Tail(txs))

\* The transactions that returned success to the operation
Succeeded(txs) == SelectSeq(txs, LAMBDA t : t.fault = "none" /\ t.status = 0)

\* The transactions the device has carried out: those whose request reached
\* it in full and which it answered (or would have answered) with status 0.
\* A transaction whose status read or whose release failed is among them.
Applied(txs) ==
    SelectSeq(txs, LAMBDA t : t.fault \in {"none", "bulk_in", "release"} /\ t.status = 0)

\* The progress value returned last (0 when none was)
LastProgress == IF Oks(history) = <<>> THEN 0 ELSE Oks(history)[Len(Oks(history))].n

\* An Erase or Program operation of which a step has failed
FailedOperation == op.kind \in {"Erase", "Program"} /\ Errs(history) # <<>>

\* C16 as stated: after a step of an Erase or Program operation failed, the
\* last progress value returned equals the work the device has carried out.
C16_Original == FailedOperation => LastProgress = SumWork(Applied(OpLog))

\* C16 amended: an Erase or Program operation issues only ErasePage or
\* Program transactions, one per advance that returned a value, none after
\* a failure and none that undoes an earlier one; the last progress value
\* returned equals the work of the transactions that succeeded, all of which
\* precede the failing one. The device has carried out that work, and the
\* work of the failing transaction besides when that transaction failed only
\* after its request had been delivered (at the status read or the release).
C16_NoRollback ==
    op.kind \in {"Erase", "Program"} =>
        LET done == Succeeded(OpLog)
        IN  /\ \A k \in 1 .. Len(OpLog) : OpLog[k].cmd = CommandOf(op.kind)
            /\ Len(OpLog) = Len(Somes(history))
            /\ Len(OpLog) - Len(done) <= 1
            /\ done = SubSeq(OpLog, 1, Len(done))
            /\ LastProgress = SumWork(done)
            /\ (Len(done) = Len(OpLog)) <=> (Errs(history) = <<>>)
            /\ SumWork(Applied(OpLog)) =
                  LastProgress
                      + (IF /\ Len(done) < Len(OpLog)
                            /\ OpLog[Len(OpLog)].fault \in {"bulk_in", "release"}
                            /\ OpLog[Len(OpLog)].status = 0
                         THEN WorkOf(OpLog[Len(OpLog)]) ELSE 0)

\* C16 witness: the second ErasePage of an operation was answered with
\* status 0 and failed at the release: progress 1 was returned last, two
\* pages are erased.
C16_Witness ==
    /\ op.kind = "Erase"
    /\ Len(OpLog) = 2
    /\ OpLog[1].fault = "none"
    /\ OpLog[2].fault = "release"
    /\ OpLog[2].status = 0
    /\ LastProgress = 1
    /\ Len(Applied(OpLog)) = 2
    /\ Len(history) >= 3
    /\ history[2].tag = "SomeErr"
    /\ history[3].tag = "None"


\* The user asked for the bootloader's metadata and the transaction went through
InfoAnswered == AfterCall /\ call.fn = "bootloader_info" /\ log[1].fault = "none"

\* A remainder that is a string: UTF-8 without a 0 byte, ended by the packet's end
ValidString(rest) == IsUtf8(rest) /\ \A k \in 1 .. Len(rest) : rest[k] # 0

\* A remainder that is a string ended by a 0 byte
ZeroTerminated(rest) ==
    /\ rest # <<>>
    /\ rest[Len(rest)] = 0
    /\ ValidString(SubSeq(rest, 1, Len(rest) - 1))

\* C17: bootloader_info issues one BootloaderInfo transaction and either
\* returns the metadata decoded from the packet or fails with an error value:
\* IoError when the transaction failed; otherwise, when the remainder of the
\* packet is a valid string, the metadata with that identifier, and when it
\* is not, MalformedResponse.
C17_Claim ==
    (AfterCall /\ call.fn = "bootloader_info") =>
        /\ Len(log) = 1
        /\ log[1].cmd = "BootloaderInfo"
        /\ ret.tag \in {"Ok", "Err"}
        /\ log[1].fault # "none" => ret.err = "IoError"
        /\ (log[1].fault = "none" /\ ValidString(log[1].packet.rest)) =>
               /\ ret.tag = "Ok"
               /\ ret.val.identifier = log[1].packet.rest
        /\ (log[1].fault = "none" /\ ~ValidString(log[1].packet.rest)) =>
               ret.err = "MalformedResponse"

\* C17, the part that holds (not a claim's formula): a packet that holds the
\* four 32-bit fields and the version, with a build date of 6 digits or more,
\* decodes to the window, the date with its dashes and the identifier when
\* its remainder is UTF-8 without a 0 byte, and fails with MalformedResponse
\* when it is not, as a remainder that a 0 byte terminates.
C17_Decoding ==
    (/\ InfoAnswered
     /\ log[1].packet.length >= INFO_FIXED_LENGTH
     /\ Len(to_string(log[1].packet.build_date)) >= 6) =>
        /\ ret.tag \in {"Ok", "Err"}
        /\ ValidString(log[1].packet.rest) =>
               /\ ret.tag = "Ok"
               /\ ret.val.identifier = log[1].packet.rest
               /\ ret.val.application_base = device.application_base
               /\ ret.val.application_size = device.application_size
               /\ Len(ret.val.build_date) = Len(to_string(log[1].packet.build_date)) + 2
               /\ ret.val.build_date[5] = "-"
               /\ ret.val.build_date[Len(ret.val.build_date) - 2] = "-"
        /\ ~ValidString(log[1].packet.rest) => ret.err = "MalformedResponse"
        /\ ZeroTerminated(log[1].packet.rest) => ret.err = "MalformedResponse"

\* C17 cases (not a claim's formula): a packet of the four 32-bit fields
\* alone, without a version, made the call panic
InfoPanicsWithoutVersion ==
    /\ InfoAnswered
    /\ log[1].packet.length = 16
    /\ ret.tag = "Panic"

\* ... a build date of one digit made it panic
InfoPanicsOnShortDate ==
    /\ InfoAnswered
    /\ log[1].packet = Packet(INFO_FIXED_LENGTH + 1, 7, << 112 >>)
    /\ ret.tag = "Panic"

\* ... an identifier that a 0 byte terminates was refused
InfoRefusesZeroTerminated ==
    /\ InfoAnswered
    /\ log[1].packet.rest = << 112, 112, 0 >>
    /\ ret.err = "MalformedResponse"

\* ... and an identifier without one was returned, under the date 2020-01-31
InfoDecoded ==
    /\ InfoAnswered
    /\ log[1].packet.rest = << 112, 112 >>
    /\ ret.tag = "Ok"
    /\ ret.val.identifier = << 112, 112 >>
    /\ ret.val.build_date = << "2", "0", "2", "0", "-", "0", "1", "-", "3", "1" >>


\* The transactions the log held before the k-th advance of the operation
TxBefore(k) == IF k = 1 THEN call.tx0 ELSE history[k - 1].tx

\* The operation was advanced until it returned None and no step failed
RanToTheEnd ==
    /\ history # <<>>
    /\ history[Len(history)].tag = "None"
    /\ Errs(history) = <<>>

\* C18: an advance of an Erase, Program or Read operation that returns a
\* value (progress or failure) issues exactly one transaction, an ErasePage,
\* Program or ReadMemory according to the operation, and one that returns
\* None issues none; a run to the end in which no step failed has issued
\* total() ErasePage transactions for an Erase and ceil(total()/chunk_size)
\* Program or ReadMemory transactions for a Program or Read.
C18_OneTransactionPerValue ==
    op.kind # "none" =>
        /\ \A k \in 1 .. Len(history) :
               history[k].tx - TxBefore(k) = (IF history[k].tag = "None" THEN 0 ELSE 1)
        /\ Len(log) = (IF history = <<>> THEN call.tx0 ELSE history[Len(history)].tx)
        /\ \A k \in 1 .. Len(OpLog) : OpLog[k].cmd = CommandOf(op.kind)
        /\ RanToTheEnd =>
               Len(OpLog) = (IF op.kind = "Erase" THEN Total(op)
                             ELSE Ceil(Total(op), op.chunk_size))

\* C18 witness: a Read of 300 bytes in chunks of 64 was advanced one chunk at
\* a time to its end and once more: five ReadMemory transactions, the last
\* for 44 bytes, and none for the two advances that returned None.
C18_Witness ==
    /\ op.kind = "Read"
    /\ Total(op) = 300
    /\ op.chunk_size = 64
    /\ RanToTheEnd
    /\ Len(history) = 7
    /\ history[5].tag = "SomeOk"
    /\ history[6].tag = "None"
    /\ history[7].tx = history[5].tx
    /\ Len(OpLog) = 5
    /\ OpLog[5].rlen = 44

\* C18 second case (not a claim's formula): an Erase of three pages ran to
\* its end with three ErasePage transactions.
EraseRanToTheEnd ==
    /\ op.kind = "Erase"
    /\ Total(op) = 3
    /\ RanToTheEnd
    /\ Len(OpLog) = 3

\* C18 third case (not a claim's formula): an advance returned a failure and
\* had issued one transaction.
FailureAfterOneTransaction ==
    /\ op.kind = "Program"
    /\ Len(history) = 2
    /\ history[2].tag = "SomeErr"
    /\ history[2].tx = history[1].tx + 1


\* The place of each call into the USB layer in the order the claim gives
StepRank == [claim |-> 1, control |-> 2, bulk_out |-> 3, bulk_in |-> 4, release |-> 5]

\* Whether the transaction made a call of that kind
Made(tx, kind) == \E i \in 1 .. Len(tx.steps) : tx.steps[i].kind = kind

\* The steps of one transaction follow the order claim, control, bulk-out,
\* bulk-in, release, none of them twice and none skipped that is due
InOrder(tx) ==
    /\ tx.steps # <<>>
    /\ tx.steps[1].kind = "claim"
    /\ Len(tx.steps) >= 2 => tx.steps[2].kind = "control"
    /\ \A i, j \in 1 .. Len(tx.steps) :
           i < j => StepRank[tx.steps[i].kind] < StepRank[tx.steps[j].kind]
    /\ \A i \in 1 .. Len(tx.steps) :
           LET step == tx.steps[i]
           IN  /\ step.kind = "control" => (step.request = Opcode(tx.cmd) /\ step.len = 0)
               /\ step.kind = "bulk_out" => (tx.wlen > 0 /\ step.len = tx.wlen)
               /\ step.kind = "bulk_in" => (tx.rlen > 0 /\ step.len = tx.rlen)
               /\ (step.kind \in {"bulk_in", "release"} /\ tx.wlen > 0) => Made(tx, "bulk_out")
               /\ (step.kind = "release" /\ tx.rlen > 0) => Made(tx, "bulk_in")

\* C19: the steps of every transaction occur in the order claim interface,
\* control transfer with the opcode and no payload, bulk-out transfer (made
\* only if the write payload is non-empty), bulk-in transfer (made only if
\* the read buffer is non-empty), release interface; a transaction in which
\* no step failed makes the two fixed steps, each bulk transfer that is due,
\* and the release last.
C19_StepOrder ==
    \A k \in 1 .. Len(log) :
        /\ InOrder(log[k])
        /\ log[k].fault = "none" =>
               /\ Made(log[k], "bulk_out") <=> log[k].wlen > 0
               /\ Made(log[k], "bulk_in") <=> log[k].rlen > 0
               /\ log[k].steps[Len(log[k].steps)].kind = "release"

\* C19 witness: a ReadMemory transaction (8 bytes out, 44 bytes in) went
\* through all five steps, and the Program and BootloaderInfo transactions
\* of other calls made four.
C19_Witness ==
    /\ log # <<>>
    /\ LET tx == log[Len(log)]
       IN  /\ tx.cmd = "ReadMemory"
           /\ tx.fault = "none"
           /\ tx.rlen = 44
           /\ [i \in 1 .. Len(tx.steps) |-> tx.steps[i].kind]
                  = << "claim", "control", "bulk_out", "bulk_in", "release" >>
           /\ tx.steps[2].request = 3
           /\ tx.steps[3].len = 8

\* C19 second case (not a claim's formula): a Program transaction skipped the bulk-in
ProgramSkipsBulkIn ==
    /\ log # <<>>
    /\ log[Len(log)].cmd = "Program"
    /\ [i \in 1 .. Len(log[Len(log)].steps) |-> log[Len(log)].steps[i].kind]
           = << "claim", "control", "bulk_out", "release" >>

\* C19 third case (not a claim's formula): a BootloaderInfo transaction
\* skipped the bulk-out
InfoSkipsBulkOut ==
    /\ log # <<>>
    /\ log[Len(log)].cmd = "BootloaderInfo"
    /\ [i \in 1 .. Len(log[Len(log)].steps) |-> log[Len(log)].steps[i].kind]
           = << "claim", "control", "bulk_in", "release" >>

\* The transaction has a step that failed
HasFailedStep(tx) == \E i \in 1 .. Len(tx.steps) : ~tx.steps[i].ok

\* C20: in a transaction with a failing step that step is the last one made
\* (no later step, the release included, is attempted), no step is made
\* twice, and the transaction returns IoError: the call or the advance that
\* issued it fails with IoError and issues no further transaction.
C20_FailFast ==
    \A k \in 1 .. Len(log) :
        /\ HasFailedStep(log[k]) <=> log[k].fault # "none"
        /\ HasFailedStep(log[k]) =>
               LET steps == log[k].steps
               IN  /\ ~steps[Len(steps)].ok
                   /\ steps[Len(steps)].kind = log[k].fault
                   /\ \A i \in 1 .. Len(steps) - 1 : steps[i].ok
                   /\ \A i, j \in 1 .. Len(steps) : steps[i].kind = steps[j].kind => i = j
                   /\ k = Len(log)
                   /\ k <= call.tx0 =>
                          (op.kind = "none" /\ ret.tag = "Err" /\ ret.err = "IoError")
                   /\ k > call.tx0 =>
                          IF op.kind = "none" THEN ret.tag = "Err" /\ ret.err = "IoError"
                          ELSE /\ Len(Somes(history)) = k - call.tx0
                               /\ Somes(history)[k - call.tx0].tag = "SomeErr"
                               /\ Somes(history)[k - call.tx0].err = "IoError"

\* C20 witness: the bulk-in transfer of the second ReadMemory of a Read
\* failed: the transaction ends there without a release, the advance
\* returned IoError and the next advance issued nothing.
C20_Witness ==
    /\ op.kind = "Read"
    /\ Len(OpLog) = 2
    /\ OpLog[2].fault = "bulk_in"
    /\ [i \in 1 .. Len(OpLog[2].steps) |-> OpLog[2].steps[i].kind]
           = << "claim", "control", "bulk_out", "bulk_in" >>
    /\ ~OpLog[2].steps[4].ok
    /\ Len(history) = 3
    /\ history[2].err = "IoError"
    /\ history[3].tag = "None"

\* C20 second case (not a claim's formula): the claim itself failed, and
\* nothing was sent
ClaimFailed ==
    /\ log # <<>>
    /\ log[Len(log)].fault = "claim"
    /\ Len(log[Len(log)].steps) = 1
    /\ ret.err = "IoError"

\* C20 third case (not a claim's formula): the release failed after an
\* ErasePage that the device answered with status 0
ReleaseFailed ==
    /\ log # <<>>
    /\ log[Len(log)].cmd = "ErasePage"
    /\ log[Len(log)].fault = "release"
    /\ log[Len(log)].status = 0
    /\ Len(log[Len(log)].steps) = 5
    /\ ret.err = "IoError"


\* The transaction claimed the interface and returned without a call of
\* release_interface
LeftClaimed(tx) ==
    /\ \E i \in 1 .. Len(tx.steps) : tx.steps[i].kind = "claim" /\ tx.steps[i].ok
    /\ ~Made(tx, "release")

\* C21: no transaction that has returned, with success or with an error at
\* any of its steps, leaves the interface claimed: a claim it made is
\* followed by a release within the same transaction.
C21_Claim == \A k \in 1 .. Len(log) : ~LeftClaimed(log[k])

\* C21, the part that holds (not a claim's formula): a transaction in which
\* no step failed released the interface as its last step, one whose claim
\* failed holds nothing, and the interface is left claimed exactly by the
\* transactions that failed at the control transfer or at a bulk transfer.
C21_ReleasedUnlessTransferFailed ==
    \A k \in 1 .. Len(log) :
        /\ log[k].fault = "none" =>
               (log[k].steps[Len(log[k].steps)].kind = "release"
                   /\ log[k].steps[Len(log[k].steps)].ok)
        /\ LeftClaimed(log[k]) <=> log[k].fault \in {"control", "bulk_out", "bulk_in"}

\* C21 case (not a claim's formula): the bulk-in transfer of a ReadMemory
\* failed and the operation was dropped by its fuse with the interface claimed
ClaimedAfterFailedRead ==
    /\ op.kind = "Read"
    /\ log # <<>>
    /\ log[Len(log)].fault = "bulk_in"
    /\ LeftClaimed(log[Len(log)])
    /\ ret.tag = "None"


\* total() as the constructor set it from the arguments of the call
TotalAtConstruction ==
    IF call.fn = "erase_pages" THEN Len(call.pages)
    ELSE IF call.fn = "erase_area" THEN EraseAreaOp(call.start, call.length).count
    ELSE call.length

\* C22: the progress values that the successful advances of an operation
\* return are strictly increasing, each at least 1 and at most total();
\* total() is what it was at construction; the k-th successful advance of an
\* Erase returns k.
C22_Progress ==
    op.kind # "none" =>
        LET ok == Oks(history)
        IN  /\ Total(op) = TotalAtConstruction
            /\ \A k \in 1 .. Len(ok) :
                   /\ 1 <= ok[k].n
                   /\ ok[k].n <= Total(op)
                   /\ k > 1 => ok[k - 1].n < ok[k].n
                   /\ op.kind = "Erase" => ok[k].n = k

\* C22 witness: an Erase of three pages returned 1, 2, 3, and total() is 3
\* as at construction.
C22_Witness ==
    /\ op.kind = "Erase"
    /\ call.fn = "erase_area"
    /\ Total(op) = 3
    /\ Len(history) >= 3
    /\ [k \in 1 .. 3 |-> history[k].n] = << 1, 2, 3 >>
    /\ \A k \in 1 .. 3 : history[k].tag = "SomeOk"

\* C22 second case (not a claim's formula): a Read of 128 bytes returned 64
\* and 128
ReadProgressed ==
    /\ op.kind = "Read"
    /\ Total(op) = 128
    /\ Len(history) >= 2
    /\ history[1].n = 64
    /\ history[2].n = 128


\* The length of the chunk a Program or ReadMemory transaction carries
ChunkOf(tx) == IF tx.cmd = "Program" THEN tx.wlen - ADDRESS_HEADER ELSE tx.rlen

\* C23: the i-th (0-based) transaction of a Program or Read operation over L
\* bytes at start is for the address start + i * chunk_size and carries a
\* chunk of min(chunk_size, L - i * chunk_size) bytes, at least one; each
\* chunk begins where the one before it ended, and after a run to the end
\* in which no step failed the chunks end at start + L.
C23_Chunks ==
    op.kind \in {"Program", "Read"} =>
        LET C == op.chunk_size
            L == Total(op)
        IN  /\ op.address = call.start
            /\ L = call.length
            /\ \A j \in 1 .. Len(OpLog) :
                   /\ OpLog[j].arg = call.start + (j - 1) * C
                   /\ ChunkOf(OpLog[j]) = Min(C, L - (j - 1) * C)
                   /\ ChunkOf(OpLog[j]) >= 1
                   /\ j > 1 => OpLog[j].arg = OpLog[j - 1].arg + ChunkOf(OpLog[j - 1])
            /\ OpLog # <<>> => OpLog[1].arg = call.start
            /\ RanToTheEnd =>
                   IF L = 0 THEN OpLog = <<>>
                   ELSE OpLog[Len(OpLog)].arg + ChunkOf(OpLog[Len(OpLog)]) = call.start + L

\* C23 witness: 300 bytes were programmed from the window's base in chunks
\* of 64: five transactions, the last for the 44 bytes at base + 256.
C23_Witness ==
    /\ op.kind = "Program"
    /\ call.start = device.application_base
    /\ Total(op) = 300
    /\ op.chunk_size = 64
    /\ RanToTheEnd
    /\ Len(OpLog) = 5
    /\ OpLog[2].arg = call.start + 64
    /\ OpLog[5].arg = call.start + 256
    /\ ChunkOf(OpLog[5]) = 44


\* The bytes the device delivered in the first k transactions of the operation
RECURSIVE Delivered(_)
Delivered(k) == IF k = 0 THEN 0 ELSE Delivered(k - 1) + OpLog[k].read

\* The bytes asked for in the first k transactions of the operation
RECURSIVE AskedFor(_)
AskedFor(k) == IF k = 0 THEN 0 ELSE AskedFor(k - 1) + OpLog[k].len

\* The positions (from 1) of the caller's buffer that have been stored into
StoredPositions ==
    UNION { (op.stores[k].offset + 1) .. (op.stores[k].offset + op.stores[k].n) :
                k \in 1 .. Len(op.stores) }

\* The positions of the k-th slice of the buffer (k from 1)
Slice(k) == ((k - 1) * op.chunk_size + 1) .. Min(k * op.chunk_size, op.length)

\* Every store of a Read operation went into the slice of its own chunk, the
\* chunk size is the bulk-in endpoint's capacity, and every ReadMemory
\* carries the address and the length of its slice.
SliceOnly ==
    /\ op.chunk_size = in_buffer_length
    /\ op.chunk_size >= 1
    /\ \A k \in 1 .. Len(op.stores) :
           /\ op.stores[k].chunk \in 1 .. Len(OpLog)
           /\ (op.stores[k].offset + 1) .. (op.stores[k].offset + op.stores[k].n)
                  \subseteq Slice(op.stores[k].chunk)
    /\ StoredPositions \subseteq UNION { Slice(j) : j \in 1 .. Len(OpLog) }
    /\ \A j \in 1 .. Len(OpLog) :
           /\ OpLog[j].cmd = "ReadMemory"
           /\ OpLog[j].rlen <= in_buffer_length
           /\ OpLog[j].arg = call.start + (j - 1) * op.chunk_size
           /\ OpLog[j].len = Cardinality(Slice(j))
           /\ OpLog[j].rlen = OpLog[j].len

\* C24: the k-th step of a Read operation stores only into the k-th
\* chunk-sized slice of the caller's buffer, every other byte staying as it
\* was; the chunk size is at most the bulk-in endpoint's capacity; each
\* ReadMemory carries the slice's address and length; and the progress value
\* of the k-th successful step is the number of bytes read in the first k steps.
C24_Claim ==
    op.kind = "Read" =>
        /\ SliceOnly
        /\ \A k \in 1 .. Len(Oks(history)) : Oks(history)[k].n = Delivered(k)

\* C24, the part that holds (not a claim's formula): the stores stay within
\* the slices, and the progress value of the k-th successful step is the
\* number of bytes asked for in the first k steps, which the number of
\* bytes delivered does not exceed.
C24_SliceOnlyAndAskedFor ==
    op.kind = "Read" =>
        /\ SliceOnly
        /\ \A k \in 1 .. Len(Oks(history)) :
               /\ Oks(history)[k].n = AskedFor(k)
               /\ Delivered(k) <= AskedFor(k)
               /\ Cardinality(StoredPositions) <= AskedFor(Len(OpLog))

\* C24 case (not a claim's formula): the second ReadMemory of a Read of 128
\* bytes was answered with 32 of 64 bytes; the advance returned 128, bytes
\* 97..128 of the buffer are as the caller passed them.
ShortAnswerCounted ==
    /\ op.kind = "Read"
    /\ op.length = 128
    /\ Len(OpLog) = 2
    /\ OpLog[1].read = 64
    /\ OpLog[2].read = 32
    /\ history[2].tag = "SomeOk"
    /\ history[2].n = 128
    /\ StoredPositions = 1 .. 96


\* C25: the chunk size that program_at splits the buffer by is positive for
\* the bulk-out capacity of every session, so that an accepted program_at
\* builds its operation, and the payload of every Program transaction (the
\* 4 address bytes and the chunk) is no longer than that capacity.
C25_Claim ==
    /\ (/\ AfterCall
        /\ call.fn = "program_at"
        /\ call.api = "Target"
        /\ InWindow(call.start, call.length)
        /\ call.start % 2 = 0) =>
           /\ ret.tag = "OkOp"
           /\ op.kind = "Program"
           /\ op.chunk_size >= 1
    /\ \A k \in 1 .. Len(log) :
           log[k].cmd = "Program" => log[k].wlen <= out_buffer_length

\* C25, the part that holds (not a claim's formula): the payload of every
\* Program transaction is the 4 address bytes and a chunk of at least one
\* byte, and is no longer than the bulk-out capacity.
C25_PayloadWithinCapacity ==
    \A k \in 1 .. Len(log) :
        log[k].cmd = "Program" =>
            /\ log[k].wlen <= out_buffer_length
            /\ log[k].wlen > ADDRESS_HEADER

\* C25 case (not a claim's formula): a Program transaction filled the
\* bulk-out capacity of 68 bytes
FullPayload ==
    /\ log # <<>>
    /\ log[Len(log)].cmd = "Program"
    /\ log[Len(log)].wlen = 68
    /\ out_buffer_length = 68


\* The Erase operation was built from an empty page list or an empty byte range
BuiltFromNothing ==
    \/ call.fn = "erase_pages" /\ call.pages = <<>>
    \/ call.fn = "erase_area" /\ call.length = 0

\* C26: in every state of an Erase operation, done = FALSE implies that the
\* pending page list is non-empty; an operation built from an empty page
\* list or byte range is done from construction on, with total() = 0; and
\* the pages taken so far (one per advance that returned a value) and the
\* pending ones add up to total().
C26_ErasePending ==
    op.kind = "Erase" =>
        /\ ~op.done => op.pages # <<>>
        /\ BuiltFromNothing => (op.done /\ Total(op) = 0 /\ op.pages = <<>> /\ OpLog = <<>>)
        /\ Len(Somes(history)) + Len(op.pages) = Total(op)

\* C26 witness: the second step of an Erase of three pages failed: the
\* operation is done with one page pending, two taken, total() = 3.
C26_Witness ==
    /\ op.kind = "Erase"
    /\ Total(op) = 3
    /\ Len(history) = 2
    /\ history[1].tag = "SomeOk"
    /\ history[2].tag = "SomeErr"
    /\ op.done
    /\ Len(op.pages) = 1

\* C26 second case (not a claim's formula): erase_pages of no page gave an
\* operation that was done at once and returned None when advanced
EmptyEraseDone ==
    /\ op.kind = "Erase"
    /\ call.fn = "erase_pages"
    /\ call.pages = <<>>
    /\ op.done
    /\ Len(history) = 1
    /\ history[1].tag = "None"

\* C26 third case (not a claim's formula): an Erase with pages pending is not done
PendingAndNotDone ==
    /\ op.kind = "Erase"
    /\ ~op.done
    /\ Len(op.pages) = 2
    /\ Len(history) = 1


\* A buffer extended with zero bytes to the next multiple of 4
ZeroExtended(buff) == buff \o [k \in 1 .. ((4 - (Len(buff) % 4)) % 4) |-> 0]

\* C27: crc32 of a buffer whose length is no multiple of 4 equals crc32 of
\* the buffer extended with zero bytes to the next multiple of 4, and the
\* value returned for a buffer is the one value crc32 has for those bytes
\* (a 32-bit value, here two 16-bit halves).
C27_ZeroPadding ==
    ret.tag = "Crc" =>
        /\ ret.val = crc32(call.data)
        /\ ret.val \in (0 .. 65535) \X (0 .. 65535)
        /\ Len(call.data) % 4 # 0 =>
               /\ Len(ZeroExtended(call.data)) % 4 = 0
               /\ Len(ZeroExtended(call.data)) - Len(call.data) \in 1 .. 3
               /\ ret.val = crc32(ZeroExtended(call.data))

\* C27 witness: crc32 of the 5 bytes 1..5 (a whole word and one byte) is
\* 0xBA237BE3, as of the 8 bytes 1, 2, 3, 4, 5, 0, 0, 0.
C27_Witness ==
    /\ ret.tag = "Crc"
    /\ call.data = << 1, 2, 3, 4, 5 >>
    /\ ret.val = << 47651, 31715 >>
    /\ ret.val = crc32(<< 1, 2, 3, 4, 5, 0, 0, 0 >>)

\* C27 second case (not a claim's formula): the words are reversed before
\* they are digested, so crc32 of "123456789" is not the CRC-32/MPEG-2 of
\* those bytes in order (0x0376E6E7), while digesting them in order gives it.
WordsReversed ==
    /\ ret.tag = "Crc"
    /\ call.data = << 49, 50, 51, 52, 53, 54, 55, 56, 57 >>
    /\ ret.val # << 886, 59111 >>
    /\ CrcDigest(CRC32_MPEG2_INIT, call.data) = << 886, 59111 >>


\* The device that open looks at: the one at the bus number and address of
\* the TargetInfo, when there is one
Addressed == picked.usb_bus_number = 1 /\ picked.usb_bus_address \in 1 .. Len(targets)

\* The device that open looks at passes the identity check with the serial
\* of the TargetInfo
SerialMatches ==
    /\ Addressed
    /\ targets[picked.usb_bus_address].punt
    /\ targets[picked.usb_bus_address].serial = picked.serial

\* C28: find_targets fails only when the enumeration itself fails, never
\* because a device fails the identity check: it returns the devices that
\* pass, each with its serial and address, in the order of enumeration.
\* TargetInfo::open returns the identity error when the device at its bus
\* number and address fails the identity check, TargetNotFound when there
\* is no such device or its serial differs, and opens a handle and queries
\* the metadata only when the serial matches; the Target it returns holds
\* the metadata fetched by one successful BootloaderInfo transaction.
C28_Discovery ==
    /\ (call.fn = "find_targets" /\ ret.tag # "Idle") =>
           /\ ret.tag = (IF call.enumerated THEN "Ok" ELSE "Err")
           /\ ret.tag = "Err" => ret.err = "IoError"
           /\ ret.tag = "Ok" =>
                  /\ Len(ret.val) = Len(Discovered)
                  /\ \A k \in 1 .. Len(ret.val) : ret.val[k].serial = Discovered[k].serial
                  /\ \A k \in 1 .. Len(targets) :
                         targets[k].punt <=>
                            \E j \in 1 .. Len(ret.val) :
                                ret.val[j] = TargetInfo(targets[k].serial, 1, k)
    /\ (call.fn = "open" /\ ret.tag # "Idle" /\ call.enumerated) =>
           /\ ~Addressed => ret.err = "TargetNotFound"
           /\ (Addressed /\ ~targets[picked.usb_bus_address].punt) =>
                  ret.err = "UnsupportedTarget"
           /\ (/\ Addressed
               /\ targets[picked.usb_bus_address].punt
               /\ targets[picked.usb_bus_address].serial # picked.serial) =>
                  ret.err = "TargetNotFound"
           /\ (call.opened \/ log # <<>>) => SerialMatches
           /\ ret.tag = "Ok" =>
                  /\ SerialMatches
                  /\ call.opened
                  /\ Len(log) = 1
                  /\ log[1].cmd = "BootloaderInfo"
                  /\ log[1].fault = "none"
                  /\ ret.val.identifier = log[1].packet.rest
    /\ (call.fn = "open" /\ ret.tag # "Idle" /\ ~call.enumerated) =>
           (ret.err = "IoError" /\ ~call.opened /\ log = <<>>)

\* C28 witness: with a foreign device at address 1 and two targets behind
\* it, find_targets returned the two targets.
C28_Witness ==
    /\ call.fn = "find_targets"
    /\ Len(targets) = 3
    /\ ~targets[1].punt
    /\ ret.tag = "Ok"
    /\ ret.val = << TargetInfo("A", 1, 2), TargetInfo("B", 1, 3) >>

\* C28 second case (not a claim's formula): open on the address of a foreign
\* device gave the identity error without opening it
OpenRefusedForeign ==
    /\ call.fn = "open"
    /\ Addressed
    /\ ~targets[picked.usb_bus_address].punt
    /\ targets[picked.usb_bus_address].serial = picked.serial
    /\ ret.err = "UnsupportedTarget"
    /\ ~call.opened

\* C28 third case (not a claim's formula): the target at the address has
\* another serial than the one asked for
OpenRefusedOtherSerial ==
    /\ call.fn = "open"
    /\ Addressed
    /\ targets[picked.usb_bus_address] = [serial |-> "A", punt |-> TRUE]
    /\ picked.serial = "B"
    /\ ret.err = "TargetNotFound"
    /\ log = <<>>

\* C28 fourth case (not a claim's formula): the target was opened and its
\* metadata fetched
Opened ==
    /\ call.fn = "open"
    /\ SerialMatches
    /\ ret.tag = "Ok"
    /\ call.opened
    /\ out_buffer_length = 68

\* C28 fifth case (not a claim's formula): the metadata query of open
\* panicked on a packet without a version
OpenPanicked ==
    /\ call.fn = "open"
    /\ SerialMatches
    /\ ret.tag = "Panic"

====
